---- MODULE Spec2Model ----
(***************************************************************************)
(* Verification model of modern-go-sgf-viewer: the Go rules engine         *)
(* and the SGF parser (services/goLogic.ts), the SGF generator and the     *)
(* game-tree handlers (App.tsx).                                           *)
(*                                                                         *)
(* Conventions.  A board is a function 0..size-1 -> 0..size-1 -> colour,   *)
(* as the 0-indexed StoneColor[][] of the code.  A Point is a record       *)
(* [r, c].  A nullable value (Point | null, board | null) is a sequence of *)
(* length 0 (null) or 1.  Arrays are sequences.  An SGF text is a sequence *)
(* of one-character strings.                                               *)
(***************************************************************************)
EXTENDS Integers, Sequences, FiniteSets, TLC

VARIABLES
  rBoard,      \* rules harness: the board the next applyMove call is given
  rKo,         \* rules harness: the ko state the next applyMove call is given
  rLast,       \* rules harness: the last applyMove call, inputs and result
  rExpired,    \* rules harness: ko point outlived by a legal move elsewhere
  gameData,               \* App: FullGameData | null
  currentNodeId,          \* App: id of the node shown, NoNode for null
  activePath,             \* App: ids from the root to the node shown
  currentFullKoState,     \* App: ko state the next play is checked against
  currentPlayerForInfo,   \* App: player shown to move
  isEditMode,             \* App
  activeEditTool,         \* App: EditTool | null
  editModePlayer,         \* App: colour of the next move played in edit mode
  maxMainLineMoveNumber,  \* App
  lastOp,                 \* App: the handler that ran last and its argument
  edits,                  \* App: in-place edits made since the game was loaded
  draft,       \* round trip: the SGF text written so far
  draftOpen,   \* round trip: parentheses of the draft still open
  draftLast,   \* round trip: the token written last
  draftNodes,  \* round trip: nodes written so far
  parser       \* raw pass: the state of parseSgfIntoSequence on its text

rulesVars == <<rBoard, rKo, rLast, rExpired>>
appVars == <<gameData, currentNodeId, activePath, currentFullKoState,
             currentPlayerForInfo, isEditMode, activeEditTool, editModePlayer,
             maxMainLineMoveNumber, lastOp, edits>>
draftVars == <<draft, draftOpen, draftLast, draftNodes>>
parserVars == <<parser>>
vars == <<rulesVars, appVars, draftVars, parserVars>>

\* Bound: side of the boards the rules harness enumerates.
RulesSize == 3

----------------------------------------------------------------------------
(* types.ts: StoneColor *)
Black == "B"
White == "W"
Empty == "E"

Pt(r, c) == [r |-> r, c |-> c]

NoKo == [koPoint |-> <<>>, boardSnapshotBeforeKoTrigger |-> <<>>]

ErrOccupied == "Invalid move: Point is not empty or out of bounds."
ErrKo == "Invalid move: Ko violation."
ErrSuicide == "Invalid move: Suicide."
NoError == ""

\* no node: a null node id
NoNode == 0

\* no tool: activeEditTool null
NoTool == "null"

(* One module holds several specifications over the same variables; each   *)
(* keeps the variables of the others at these values.                      *)
RulesIdle ==
  /\ rBoard = <<>>
  /\ rKo = NoKo
  /\ rLast = [called |-> FALSE]
  /\ rExpired = <<>>

AppIdle ==
  /\ gameData = <<>>
  /\ currentNodeId = NoNode
  /\ activePath = <<>>
  /\ currentFullKoState = NoKo
  /\ currentPlayerForInfo = Black
  /\ isEditMode = FALSE
  /\ activeEditTool = NoTool
  /\ editModePlayer = Black
  /\ maxMainLineMoveNumber = 0
  /\ lastOp = [kind |-> "none", arg |-> <<>>]
  /\ edits = 0

DraftIdle ==
  /\ draft = <<>>
  /\ draftOpen = 0
  /\ draftLast = "none"
  /\ draftNodes = 0

ParserIdle == parser = [pc |-> "idle"]

----------------------------------------------------------------------------
(* services/goLogic.ts *)

cloneBoard(board) == [r \in DOMAIN board |-> [c \in DOMAIN board[r] |-> board[r][c]]]

isInBounds(r, c, size) == r >= 0 /\ r < size /\ c >= 0 /\ c < size

createEmptyBoard(size) == [r \in 0..(size - 1) |-> [c \in 0..(size - 1) |-> Empty]]

\* board[p.r][p.c] = v on a copy
SetCell(board, p, v) == [board EXCEPT ![p.r] = [@ EXCEPT ![p.c] = v]]

\* the literal neighbour arrays of the code: up, down, left, right
NeighborsOf(p) == << Pt(p.r - 1, p.c), Pt(p.r + 1, p.c), Pt(p.r, p.c - 1), Pt(p.r, p.c + 1) >>

Contains(seq, x) == \E i \in 1..Len(seq) : seq[i] = x

\* VisitNeighbors without the libertySet test: a liberty is pushed once for
\* every stone of the group it borders
RECURSIVE VisitNeighborsRepeatingLiberties(_, _, _, _, _)
VisitNeighborsRepeatingLiberties(board, color, ns, k, acc) ==
  IF k > Len(ns) THEN acc
  ELSE LET n == ns[k]
           size == Cardinality(DOMAIN board)
           acc2 == IF isInBounds(n.r, n.c, size)
                   THEN IF board[n.r][n.c] = Empty
                        THEN [acc EXCEPT !.liberties = Append(@, n)]
                        ELSE IF board[n.r][n.c] = color /\ n \notin acc.visited
                             THEN [acc EXCEPT !.visited = @ \cup {n}, !.q = Append(@, n)]
                             ELSE acc
                   ELSE acc
       IN VisitNeighborsRepeatingLiberties(board, color, ns, k + 1, acc2)

\* the `for (const n of neighbors)` loop inside the flood fill; acc = [q, visited, liberties]
RECURSIVE VisitNeighbors(_, _, _, _, _)
VisitNeighbors(board, color, ns, k, acc) ==
  IF k > Len(ns) THEN acc
  ELSE LET n == ns[k]
           size == Cardinality(DOMAIN board)
           acc2 == IF isInBounds(n.r, n.c, size)
                   THEN IF board[n.r][n.c] = Empty
                        THEN IF ~Contains(acc.liberties, n)
                             THEN [acc EXCEPT !.liberties = Append(@, n)]
                             ELSE acc
                        ELSE IF board[n.r][n.c] = color /\ n \notin acc.visited
                             THEN [acc EXCEPT !.visited = @ \cup {n}, !.q = Append(@, n)]
                             ELSE acc
                   ELSE acc
       IN VisitNeighbors(board, color, ns, k + 1, acc2)

\* the `while (q.length > 0)` loop of the flood fill
RECURSIVE FloodFill(_, _, _)
FloodFill(board, color, st) ==
  IF Len(st.q) = 0 THEN [group |-> st.group, liberties |-> st.liberties]
  ELSE LET curr == Head(st.q)
           acc == VisitNeighbors(board, color, NeighborsOf(curr), 1,
                    [q |-> Tail(st.q), visited |-> st.visited, liberties |-> st.liberties])
       IN FloodFill(board, color,
            [q |-> acc.q, visited |-> acc.visited, liberties |-> acc.liberties,
             group |-> Append(st.group, curr)])

getGroupAndLiberties(board, startR, startC) ==
  LET color == board[startR][startC]
  IN IF color = Empty
     THEN [group |-> <<>>, liberties |-> <<>>]
     ELSE FloodFill(board, color,
            [q |-> << Pt(startR, startC) >>, visited |-> { Pt(startR, startC) },
             liberties |-> <<>>, group |-> <<>>])

boardsAreEqual(board1, board2) ==
  /\ Cardinality(DOMAIN board1) = Cardinality(DOMAIN board2)
  /\ \A r \in DOMAIN board1 :
        /\ Cardinality(DOMAIN board1[r]) = Cardinality(DOMAIN board2[r])
        /\ \A c \in DOMAIN board1[r] : board1[r][c] = board2[r][c]

Opponent(player) == IF player = Black THEN White ELSE Black

\* group.forEach(stone => { if (!capturesForKoCheck.some(...)) capturesForKoCheck.push(stone) })
RECURSIVE PushNew(_, _, _)
PushNew(group, k, caps) ==
  IF k > Len(group) THEN caps
  ELSE PushNew(group, k + 1, IF Contains(caps, group[k]) THEN caps ELSE Append(caps, group[k]))

\* the neighbour loop of the ko check: captures are collected, the board is not changed
RECURSIVE KoCaptureLoop(_, _, _, _, _)
KoCaptureLoop(temp, opponent, ns, k, caps) ==
  IF k > Len(ns) THEN caps
  ELSE LET n == ns[k]
           size == Cardinality(DOMAIN temp)
       IN IF isInBounds(n.r, n.c, size) /\ temp[n.r][n.c] = opponent
          THEN LET gl == getGroupAndLiberties(temp, n.r, n.c)
               IN KoCaptureLoop(temp, opponent, ns, k + 1,
                    IF Len(gl.liberties) = 0 THEN PushNew(gl.group, 1, caps) ELSE caps)
          ELSE KoCaptureLoop(temp, opponent, ns, k + 1, caps)

\* seq.forEach(p => board[p.r][p.c] = Empty)
RECURSIVE ClearAll(_, _, _)
ClearAll(board, seq, k) ==
  IF k > Len(seq) THEN board ELSE ClearAll(SetCell(board, seq[k], Empty), seq, k + 1)

\* group.forEach(stone => { if (newBoard[stone] !== Empty) { newBoard[stone] = Empty; captured.push(stone) } })
RECURSIVE RemoveGroup(_, _, _)
RemoveGroup(group, k, st) ==
  IF k > Len(group) THEN st
  ELSE LET s == group[k]
       IN RemoveGroup(group, k + 1,
            IF st.board[s.r][s.c] # Empty
            THEN [board |-> SetCell(st.board, s, Empty), captured |-> Append(st.captured, s)]
            ELSE st)

\* Mutant of CaptureLoop: a group without liberties is recorded as captured
\* but its stones are left on the board.
RECURSIVE CaptureLoopKeepsStones(_, _, _, _)
CaptureLoopKeepsStones(opponentColor, ns, k, st) ==
  IF k > Len(ns) THEN st
  ELSE LET n == ns[k]
           size == Cardinality(DOMAIN st.board)
       IN IF isInBounds(n.r, n.c, size) /\ st.board[n.r][n.c] = opponentColor
          THEN LET gl == getGroupAndLiberties(st.board, n.r, n.c)
               IN CaptureLoopKeepsStones(opponentColor, ns, k + 1,
                    IF Len(gl.liberties) = 0
                    THEN [st EXCEPT !.captured = @ \o gl.group]
                    ELSE st)
          ELSE CaptureLoopKeepsStones(opponentColor, ns, k + 1, st)

\* the neighbour loop of the capture step; st = [board, captured]
RECURSIVE CaptureLoop(_, _, _, _)
CaptureLoop(opponentColor, ns, k, st) ==
  IF k > Len(ns) THEN st
  ELSE LET n == ns[k]
           size == Cardinality(DOMAIN st.board)
       IN IF isInBounds(n.r, n.c, size) /\ st.board[n.r][n.c] = opponentColor
          THEN LET gl == getGroupAndLiberties(st.board, n.r, n.c)
               IN CaptureLoop(opponentColor, ns, k + 1,
                    IF Len(gl.liberties) = 0 THEN RemoveGroup(gl.group, 1, st) ELSE st)
          ELSE CaptureLoop(opponentColor, ns, k + 1, st)

\* A ko test by point alone: any stone played on the ko point next to an
\* enemy stone is refused (used by the mutant applyMoveStickyKo).
KoViolationByPoint(originalBoard, player, coord, currentKoState) ==
  /\ Len(currentKoState.koPoint) = 1
  /\ currentKoState.koPoint[1].r = coord.r
  /\ currentKoState.koPoint[1].c = coord.c
  /\ \E q \in { n \in { NeighborsOf(coord)[i] : i \in 1..4 } :
                   isInBounds(n.r, n.c, Cardinality(DOMAIN originalBoard)) } :
        originalBoard[q.r][q.c] = Opponent(player)

\* Mutant of KoViolation: the snapshot is compared with the board before
\* the recapture instead of the board after it.
KoViolationComparesInput(originalBoard, player, coord, currentKoState) ==
  /\ Len(currentKoState.koPoint) = 1
  /\ currentKoState.koPoint[1].r = coord.r
  /\ currentKoState.koPoint[1].c = coord.c
  /\ LET temp == SetCell(cloneBoard(originalBoard), coord, player)
         opponent == Opponent(player)
         capturesForKoCheck == KoCaptureLoop(temp, opponent, NeighborsOf(coord), 1, <<>>)
     IN /\ Len(currentKoState.boardSnapshotBeforeKoTrigger) = 1
        /\ boardsAreEqual(originalBoard, currentKoState.boardSnapshotBeforeKoTrigger[1])
        /\ Len(capturesForKoCheck) = 1
        /\ originalBoard[capturesForKoCheck[1].r][capturesForKoCheck[1].c] = opponent

\* lines 91-125: TRUE when the move is rejected as a ko violation
KoViolation(originalBoard, player, coord, currentKoState) ==
  /\ Len(currentKoState.koPoint) = 1
  /\ currentKoState.koPoint[1].r = coord.r
  /\ currentKoState.koPoint[1].c = coord.c
  /\ LET temp == SetCell(cloneBoard(originalBoard), coord, player)
         opponent == Opponent(player)
         capturesForKoCheck == KoCaptureLoop(temp, opponent, NeighborsOf(coord), 1, <<>>)
         boardForKoComparison == ClearAll(cloneBoard(temp), capturesForKoCheck, 1)
     IN /\ Len(currentKoState.boardSnapshotBeforeKoTrigger) = 1
        /\ boardsAreEqual(boardForKoComparison, currentKoState.boardSnapshotBeforeKoTrigger[1])
        /\ Len(capturesForKoCheck) = 1
        /\ originalBoard[capturesForKoCheck[1].r][capturesForKoCheck[1].c] = opponent

\* lines 127-149: place the stone and remove the captured neighbour groups
PlaceAndCapture(originalBoard, player, coord) ==
  CaptureLoop(Opponent(player), NeighborsOf(coord), 1,
              [board |-> SetCell(cloneBoard(originalBoard), coord, player), captured |-> <<>>])

\* IsSuicide never holding: a stone without liberties that takes nothing
\* is played all the same
IsSuicideIgnored(newBoard, coord, stonesCapturedInThisMove) == FALSE

\* Mutant of IsSuicide: a group with one liberty left is treated as dead.
IsSuicideOffByOne(newBoard, coord, stonesCapturedInThisMove) ==
  /\ Len(getGroupAndLiberties(newBoard, coord.r, coord.c).liberties) <= 1
  /\ Len(stonesCapturedInThisMove) = 0

\* lines 151-156
IsSuicide(newBoard, coord, stonesCapturedInThisMove) ==
  /\ Len(getGroupAndLiberties(newBoard, coord.r, coord.c).liberties) = 0
  /\ Len(stonesCapturedInThisMove) = 0

\* DeriveKoState keeping as snapshot the board after the move
DeriveKoStateSnapshotAfter(originalBoard, newBoard, player, coord, stonesCapturedInThisMove) ==
  IF Len(stonesCapturedInThisMove) = 1
  THEN LET capturedStonePos == stonesCapturedInThisMove[1]
           tempBoardForKoCheck == SetCell(cloneBoard(newBoard), capturedStonePos, Opponent(player))
           gl == getGroupAndLiberties(tempBoardForKoCheck, coord.r, coord.c)
       IN IF Len(gl.liberties) = 0
             /\ boardsAreEqual(ClearAll(cloneBoard(tempBoardForKoCheck), gl.group, 1), originalBoard)
          THEN [koPoint |-> << capturedStonePos >>,
                boardSnapshotBeforeKoTrigger |-> << cloneBoard(newBoard) >>]
          ELSE NoKo
  ELSE NoKo

\* lines 158-177
DeriveKoState(originalBoard, newBoard, player, coord, stonesCapturedInThisMove) ==
  IF Len(stonesCapturedInThisMove) = 1
  THEN LET capturedStonePos == stonesCapturedInThisMove[1]
           tempBoardForKoCheck == SetCell(cloneBoard(newBoard), capturedStonePos, Opponent(player))
           gl == getGroupAndLiberties(tempBoardForKoCheck, coord.r, coord.c)
       IN IF Len(gl.liberties) = 0
             /\ boardsAreEqual(ClearAll(cloneBoard(tempBoardForKoCheck), gl.group, 1), originalBoard)
          THEN [koPoint |-> << capturedStonePos >>,
                boardSnapshotBeforeKoTrigger |-> << cloneBoard(originalBoard) >>]
          ELSE NoKo
  ELSE NoKo

\* The result of a rejected call (lines 87, 123, 154).
Rejected(originalBoard, currentKoState, err) ==
  [newBoard |-> originalBoard, stonesCapturedInThisMove |-> <<>>,
   newKoState |-> currentKoState, error |-> err]

\* Mutant of ArgumentAfterCall: the stone and the captures are written to
\* the array the caller passed (the clone of line 84 is missing).
ArgumentWrittenThrough(board, written) == written

\* The caller's array after the call: every write of applyMove goes to a
\* clone (lines 84, 92, 115, 127, 161, 167), never to `board` itself.
ArgumentAfterCall(board, written) == board

\* Mutant of applyMove: the ko point stays forbidden, to any stone that
\* touches an enemy stone there, until a later capture replaces it.
applyMoveStickyKo(board, player, coord, currentKoState) ==
  LET size == Cardinality(DOMAIN board)
      originalBoard == cloneBoard(board)
  IN IF ~isInBounds(coord.r, coord.c, size) \/ originalBoard[coord.r][coord.c] # Empty
     THEN Rejected(originalBoard, currentKoState, ErrOccupied)
     ELSE IF KoViolationByPoint(originalBoard, player, coord, currentKoState)
     THEN Rejected(originalBoard, currentKoState, ErrKo)
     ELSE LET pc == PlaceAndCapture(originalBoard, player, coord)
              derived == DeriveKoState(originalBoard, pc.board, player, coord, pc.captured)
          IN IF IsSuicide(pc.board, coord, pc.captured)
             THEN Rejected(originalBoard, currentKoState, ErrSuicide)
             ELSE [newBoard |-> pc.board,
                   stonesCapturedInThisMove |-> pc.captured,
                   newKoState |-> IF derived = NoKo THEN currentKoState ELSE derived,
                   error |-> NoError]

applyMove(board, player, coord, currentKoState) ==
  LET size == Cardinality(DOMAIN board)
      originalBoard == cloneBoard(board)
  IN IF ~isInBounds(coord.r, coord.c, size) \/ originalBoard[coord.r][coord.c] # Empty
     THEN Rejected(originalBoard, currentKoState, ErrOccupied)
     ELSE IF KoViolation(originalBoard, player, coord, currentKoState)
     THEN Rejected(originalBoard, currentKoState, ErrKo)
     ELSE LET pc == PlaceAndCapture(originalBoard, player, coord)
          IN IF IsSuicide(pc.board, coord, pc.captured)
             THEN Rejected(originalBoard, currentKoState, ErrSuicide)
             ELSE [newBoard |-> pc.board,
                   stonesCapturedInThisMove |-> pc.captured,
                   newKoState |-> DeriveKoState(originalBoard, pc.board, player, coord, pc.captured),
                   error |-> NoError]

----------------------------------------------------------------------------
(* Rules harness: applyMove called on every board of side RulesSize, and   *)
(* again on the boards and ko states those calls return.                   *)

RulesCoords == 0..(RulesSize - 1)
RulesBoards == [RulesCoords -> [RulesCoords -> {Empty, Black, White}]]
\* every point of the board, and one point off each of two edges
RulesPoints == { Pt(r, c) : r \in RulesCoords, c \in RulesCoords }
                 \cup { Pt(-1, 0), Pt(0, RulesSize) }

NoCall == [called |-> FALSE]

RulesInit ==
  /\ rBoard \in RulesBoards
  /\ rKo = NoKo
  /\ rLast = NoCall
  /\ rExpired = <<>>
  /\ AppIdle /\ DraftIdle /\ ParserIdle

\* One applyMove call by a caller that keeps the returned board and ko
\* state (as handleBoardClick and convertSgfSequenceToGameTree do).  The
\* successors of a state depend on rBoard, rKo and rExpired only.  Every
\* board is an initial state, so a call with an empty ko state and nothing
\* expired has exactly the successors of the initial state with the same
\* board, and a call after a rejected call has exactly the successors of
\* the state the rejected call was made in: the first conjunct skips those
\* repetitions and removes no reachable state.
ApplyMoveCall(player, coord) ==
  /\ rLast.called => (rLast.res.error = NoError /\ (rKo # NoKo \/ rExpired # <<>>))
  /\ \E res \in { applyMove(rBoard, player, coord, rKo) } :
       /\ rLast' = [called |-> TRUE, board |-> rBoard, ko |-> rKo, player |-> player,
                    coord |-> coord, res |-> res,
                    boardArg |-> ArgumentAfterCall(rBoard, res.newBoard),
                    expired |-> rExpired]
       /\ rBoard' = IF res.error = NoError THEN res.newBoard ELSE rBoard
       /\ rKo' = IF res.error = NoError THEN res.newKoState ELSE rKo
       /\ rExpired' = IF res.error # NoError THEN rExpired
                      ELSE IF Len(rKo.koPoint) = 1 /\ rKo.koPoint[1] # coord THEN rKo.koPoint
                      ELSE <<>>
  /\ UNCHANGED <<appVars, draftVars, parserVars>>

RulesNext == \E player \in {Black, White}, coord \in RulesPoints : ApplyMoveCall(player, coord)

SpecRules == RulesInit /\ [][RulesNext]_vars

----------------------------------------------------------------------------
(* The rules of Go stated on sets of points, independently of the flood    *)
(* fill of the code: the claims about applyMove are checked against these. *)

PointsOf(board) == { Pt(r, c) : r \in DOMAIN board, c \in DOMAIN board }

Adjacent(p, q) ==
  \/ (p.r = q.r /\ (p.c = q.c + 1 \/ q.c = p.c + 1))
  \/ (p.c = q.c /\ (p.r = q.r + 1 \/ q.r = p.r + 1))

RECURSIVE GrowChain(_, _, _)
GrowChain(board, color, S) ==
  LET S2 == S \cup { q \in PointsOf(board) :
                       board[q.r][q.c] = color /\ \E s \in S : Adjacent(s, q) }
  IN IF S2 = S THEN S ELSE GrowChain(board, color, S2)

\* the maximal chain of same-coloured stones containing the stone at p
ChainAt(board, p) == GrowChain(board, board[p.r][p.c], {p})

LibertiesOfChain(board, chain) ==
  { q \in PointsOf(board) : board[q.r][q.c] = Empty /\ \E s \in chain : Adjacent(s, q) }

\* the stones of the opponent's chains that touch coord and have no liberty
\* once a stone of `player` stands on coord
DeadNeighbours(board, player, coord) ==
  LET placed == SetCell(board, coord, player)
  IN UNION { ChainAt(placed, n) :
               n \in { q \in PointsOf(board) :
                         /\ Adjacent(q, coord)
                         /\ placed[q.r][q.c] = Opponent(player)
                         /\ LibertiesOfChain(placed, ChainAt(placed, q)) = {} } }

AllChainsAlive(board) ==
  \A p \in PointsOf(board) :
     board[p.r][p.c] # Empty => LibertiesOfChain(board, ChainAt(board, p)) # {}

SeqToSet(seq) == { seq[i] : i \in 1..Len(seq) }
NoDuplicates(seq) == \A i, j \in 1..Len(seq) : seq[i] = seq[j] => i = j

Succeeded == rLast.called /\ rLast.res.error = NoError
RejectedCall == rLast.called /\ rLast.res.error # NoError
OnEmptyPoint ==
  /\ rLast.called
  /\ isInBounds(rLast.coord.r, rLast.coord.c, Cardinality(DOMAIN rLast.board))
  /\ rLast.board[rLast.coord.r][rLast.coord.c] = Empty

\* C1. Capture correctness: after a successful applyMove the new board is
\* the input board with the played stone added and exactly the opponent
\* chains that touch the played point and have no liberty removed; the
\* captured list holds exactly those points, each once.
C1_CaptureCorrect ==
  Succeeded =>
    LET dead == DeadNeighbours(rLast.board, rLast.player, rLast.coord)
        placed == SetCell(rLast.board, rLast.coord, rLast.player)
    IN /\ \A q \in PointsOf(rLast.board) :
            rLast.res.newBoard[q.r][q.c] = IF q \in dead THEN Empty ELSE placed[q.r][q.c]
       /\ SeqToSet(rLast.res.stonesCapturedInThisMove) = dead
       /\ NoDuplicates(rLast.res.stonesCapturedInThisMove)

\* C1 witness: a successful move captured a chain that touches the played
\* point on two sides.
C1_Witness ==
  /\ Succeeded
  /\ \E a, b \in SeqToSet(rLast.res.stonesCapturedInThisMove) :
        /\ a # b
        /\ Adjacent(a, rLast.coord)
        /\ Adjacent(b, rLast.coord)
        /\ b \in ChainAt(SetCell(rLast.board, rLast.coord, rLast.player), a)

\* the call is the opponent's immediate play at the ko point in force
RecaptureAtKoPoint ==
  /\ rLast.called
  /\ Len(rLast.ko.koPoint) = 1
  /\ rLast.coord = rLast.ko.koPoint[1]
  /\ rLast.player =
       rLast.ko.boardSnapshotBeforeKoTrigger[1][rLast.coord.r][rLast.coord.c]

\* C2 as claimed: whenever a ko point P is in force, the opponent's
\* immediate play at P is rejected as a ko violation and the board handed
\* back equals the board given.
C2_AsClaimed ==
  RecaptureAtKoPoint =>
    /\ rLast.res.error = ErrKo
    /\ rLast.res.newBoard = rLast.board

\* C2 amended: whenever a ko point P is in force and the board before the
\* capture that set it had no chain without liberties, the opponent's
\* immediate play at P is rejected as a ko violation and the board handed
\* back equals the board given.
C2_KoRejected ==
  (RecaptureAtKoPoint /\ AllChainsAlive(rLast.ko.boardSnapshotBeforeKoTrigger[1])) =>
    /\ rLast.res.error = ErrKo
    /\ rLast.res.newBoard = rLast.board

\* C2 witness: an immediate recapture at the ko point, on a board that came
\* from a position with every chain alive, was rejected as a ko violation.
C2_Witness ==
  /\ RecaptureAtKoPoint
  /\ AllChainsAlive(rLast.ko.boardSnapshotBeforeKoTrigger[1])
  /\ rLast.res.error = ErrKo

\* C3. The ko restriction lasts one ply: after a capture set the ko point P
\* and a legal move was then played elsewhere, a play at P with the ko
\* state that move returned is not rejected as a ko violation.
C3_KoSinglePly ==
  (rLast.called /\ Len(rLast.expired) = 1 /\ rLast.coord = rLast.expired[1]) =>
    rLast.res.error # ErrKo

\* C3 witness: a stone was played on the former ko point one move after the
\* restriction, and it retook the ko.
C3_Witness ==
  /\ Succeeded
  /\ Len(rLast.expired) = 1
  /\ rLast.coord = rLast.expired[1]
  /\ Len(rLast.res.stonesCapturedInThisMove) = 1

\* C4. Suicide: on an empty in-bounds point, a stone whose chain has no
\* liberty once the captures are made, and that captures nothing, is
\* rejected as suicide with the input board handed back; a move that
\* captures at least one stone is never rejected as suicide.
C4_SuicideRejected ==
  OnEmptyPoint =>
    LET dead == DeadNeighbours(rLast.board, rLast.player, rLast.coord)
        placed == SetCell(rLast.board, rLast.coord, rLast.player)
        after == [r \in DOMAIN placed |-> [c \in DOMAIN placed |->
                    IF Pt(r, c) \in dead THEN Empty ELSE placed[r][c]]]
        noLiberty == LibertiesOfChain(after, ChainAt(after, rLast.coord)) = {}
    IN /\ (noLiberty /\ dead = {}) =>
            /\ rLast.res.error = ErrSuicide
            /\ boardsAreEqual(rLast.res.newBoard, rLast.board)
       /\ dead # {} => rLast.res.error # ErrSuicide
       /\ rLast.res.error = ErrSuicide => (noLiberty /\ dead = {})

\* C4 witness: a move was rejected as suicide.
C4_Witness == OnEmptyPoint /\ rLast.res.error = ErrSuicide

FloodPoints ==
  IF rLast.called THEN PointsOf(rBoard) \cap {rLast.coord}
  ELSE PointsOf(rBoard)

\* C17: on a stone, getGroupAndLiberties returns as group exactly the
\* maximal set of same-coloured stones 4-connected to the point, each once,
\* and as liberties exactly the empty points of the board next to a stone of
\* that group, each once; on an empty point it returns two empty lists.
C17_GroupAndLiberties ==
  \A p \in FloodPoints :
    LET found == getGroupAndLiberties(rBoard, p.r, p.c)
    IN IF rBoard[p.r][p.c] = Empty
       THEN found.group = <<>> /\ found.liberties = <<>>
       ELSE /\ SeqToSet(found.group) = ChainAt(rBoard, p)
            /\ NoDuplicates(found.group)
            /\ SeqToSet(found.liberties)
                 = LibertiesOfChain(rBoard, ChainAt(rBoard, p))
            /\ NoDuplicates(found.liberties)

\* a stone has been played into a group of three stones or more, one of
\* whose liberties borders two of its stones
C17_Witness ==
  /\ Succeeded
  /\ \E p \in FloodPoints :
       /\ Cardinality(ChainAt(rBoard, p)) >= 3
       /\ \E q \in LibertiesOfChain(rBoard, ChainAt(rBoard, p)) :
            Cardinality({ s \in ChainAt(rBoard, p) : Adjacent(s, q) }) >= 2


\* C23: a successful applyMove returns a ko state that is not empty only
\* when the move took exactly one stone; koPoint is then the point of that
\* stone and the snapshot is the board the call was given.  A move that
\* took no stone, or two or more, returns the empty ko state.
C23_KoOnlyOnSingleCapture ==
  Succeeded =>
    /\ rLast.res.newKoState # NoKo =>
         /\ Len(rLast.res.stonesCapturedInThisMove) = 1
         /\ rLast.res.newKoState.koPoint
              = <<rLast.res.stonesCapturedInThisMove[1]>>
         /\ rLast.res.newKoState.boardSnapshotBeforeKoTrigger = <<rLast.board>>
    /\ Len(rLast.res.stonesCapturedInThisMove) # 1 =>
         rLast.res.newKoState = NoKo

\* a move that took one stone has set a ko
C23_Witness ==
  /\ Succeeded
  /\ Len(rLast.res.stonesCapturedInThisMove) = 1
  /\ rLast.res.newKoState # NoKo


\* C29: when no group of the board given has no liberty, a successful
\* applyMove returns a board on which no group has no liberty, the group of
\* the played stone included, and the played point holds the player's colour.
C29_LegalPlayKeepsGroupsAlive ==
  (Succeeded /\ AllChainsAlive(rLast.board)) =>
    /\ rLast.res.newBoard[rLast.coord.r][rLast.coord.c] = rLast.player
    /\ AllChainsAlive(rLast.res.newBoard)

\* a move that left its own stone with one liberty, the point of the stone
\* it took, was played on a board with every group alive
C29_Witness ==
  /\ Succeeded
  /\ AllChainsAlive(rLast.board)
  /\ rLast.res.stonesCapturedInThisMove # <<>>
  /\ LibertiesOfChain(rLast.res.newBoard, ChainAt(rLast.res.newBoard, rLast.coord))
       = SeqToSet(rLast.res.stonesCapturedInThisMove)

----------------------------------------------------------------------------
(* Characters and strings.  A string is a sequence of characters; an ASCII *)
(* character is the one-character string itself, a character outside      *)
(* ASCII is written "uXXXX" after its UTF-16 code unit.                    *)

Ascii ==
  <<" ", "!", "\"", "#", "$", "%", "&", "'", "(", ")", "*", "+", ",", "-",
    ".", "/", "0", "1", "2", "3", "4", "5", "6", "7", "8", "9", ":", ";",
    "<", "=", ">", "?", "@", "A", "B", "C", "D", "E", "F", "G", "H", "I",
    "J", "K", "L", "M", "N", "O", "P", "Q", "R", "S", "T", "U", "V", "W",
    "X", "Y", "Z", "[", "\\", "]", "^", "_", "u0060", "a", "b", "c", "d", "e",
    "f", "g", "h", "i", "j", "k", "l", "m", "n", "o", "p", "q", "r", "s",
    "t", "u", "v", "w", "x", "y", "z", "{", "|", "}", "~">>

NonAscii ==
  { <<"\t", 9>>, <<"\n", 10>>, <<"\r", 13>>,
    <<"u0411", 1041>>, <<"u0418", 1048>>, <<"u041d", 1053>>,
    <<"u0427", 1063>>, <<"u0430", 1072>>, <<"u0432", 1074>>,
    <<"u0433", 1075>>, <<"u0434", 1076>>, <<"u0435", 1077>>,
    <<"u0437", 1079>>, <<"u0438", 1080>>, <<"u043b", 1083>>,
    <<"u043d", 1085>>, <<"u043e", 1086>>, <<"u0440", 1088>>,
    <<"u0441", 1089>>, <<"u044b", 1099>>, <<"u044f", 1103>> }

CharCodeTable ==
  { <<Ascii[k], 31 + k>> : k \in 1..Len(Ascii) } \cup NonAscii

KnownChars == { e[1] : e \in CharCodeTable }

charCodeAt ==
  [ch \in KnownChars |-> (CHOOSE e \in CharCodeTable : e[1] = ch)[2]]

fromCharCode(code) == (CHOOSE e \in CharCodeTable : e[2] = code)[1]

\* /[A-Z]/
IsUpperCase(ch) == ch \in KnownChars /\ charCodeAt[ch] \in 65..90

\* String.prototype.toUpperCase on one character (ASCII letters)
toUpperCase(ch) ==
  IF ch \in KnownChars /\ charCodeAt[ch] \in 97..122
  THEN fromCharCode(charCodeAt[ch] - 32) ELSE ch

IsWhiteSpace(ch) == ch \in {" ", "\t", "\n", "\r"}

RECURSIVE trimStart(_)
trimStart(s) ==
  IF Len(s) > 0 /\ IsWhiteSpace(s[1]) THEN trimStart(Tail(s)) ELSE s

RECURSIVE trimEnd(_)
trimEnd(s) ==
  IF Len(s) > 0 /\ IsWhiteSpace(s[Len(s)])
  THEN trimEnd(SubSeq(s, 1, Len(s) - 1)) ELSE s

trim(s) == trimEnd(trimStart(s))

RECURSIVE Concat(_)
Concat(strings) ==
  IF strings = <<>> THEN <<>> ELSE strings[1] \o Concat(Tail(strings))

\* Array.prototype.filter(c => c !== x)
RECURSIVE Without(_, _)
Without(list, x) ==
  IF list = <<>> THEN <<>>
  ELSE IF list[1] = x THEN Without(Tail(list), x)
  ELSE <<list[1]>> \o Without(Tail(list), x)

----------------------------------------------------------------------------
(* Property bags: Record<string, string[]>.  The bag is the sequence of    *)
(* its [key, values] entries in insertion order, which is the order        *)
(* for..in enumerates them in.                                             *)

PropIndex(props, key) ==
  IF \E k \in 1..Len(props) : props[k].key = key
  THEN CHOOSE k \in 1..Len(props) : props[k].key = key
  ELSE 0

HasProp(props, key) == PropIndex(props, key) # 0

\* props[key]; used only where the key is present
PropValues(props, key) == props[PropIndex(props, key)].values

\* props[key]?.[0] as a nullable string
FirstValue(props, key) ==
  IF HasProp(props, key) /\ PropValues(props, key) # <<>>
  THEN <<PropValues(props, key)[1]>> ELSE <<>>

\* props[key] = values
SetProp(props, key, values) ==
  IF HasProp(props, key)
  THEN [props EXCEPT ![PropIndex(props, key)].values = values]
  ELSE Append(props, [key |-> key, values |-> values])

\* delete props[key]
DeleteProp(props, key) ==
  SelectSeq(props, LAMBDA e : e.key # key)

----------------------------------------------------------------------------
(* constants.ts and the coordinate helpers of the parser *)

DEFAULT_BOARD_SIZE == 19
SGF_MAX_SIZE == 19

sgfCharToCoord(char) == charCodeAt[char] - charCodeAt["a"]

\* Point | null
sgfCoordToPoint(sgfCoord) ==
  IF Len(sgfCoord) = 2
  THEN LET c == sgfCharToCoord(sgfCoord[1])
           r == sgfCharToCoord(sgfCoord[2])
       IN IF c < SGF_MAX_SIZE /\ r < SGF_MAX_SIZE /\ c >= 0 /\ r >= 0
          THEN <<Pt(r, c)>> ELSE <<>>
  ELSE <<>>

pointToSgfCoord(point) ==
  <<fromCharCode(97 + point.c), fromCharCode(97 + point.r)>>

----------------------------------------------------------------------------
(* The raw SGF pass: parseSgfNodesRecursive and parseSgfIntoSequence.      *)
(*                                                                         *)
(* An SgfNode is [properties, variations]; its parent link and temporary   *)
(* id are not read by the resolution pass beyond naming the node, so the   *)
(* node ids are given out when the game tree is built.                     *)
(*                                                                         *)
(* The recursive descent is run as a machine, one loop iteration a step.   *)
(* Each active call of parseSgfNodesRecursive is a frame [nodes, ctx] of   *)
(* the stack: nodes is the call's local array and ctx the frame whose last *)
(* node is the call's parentSgfNodeContext (0 for null).  pc is            *)
(* "sequence" at the head of the node loop, "properties" at the head of    *)
(* the property loop of the node being read, "returned" when               *)
(* parseSgfIntoSequence has returned.                                      *)

NewSgfNode == [properties |-> <<>>, variations |-> <<>>]

\* the loop collecting the upper-case letters of a property name
RECURSIVE ReadPropName(_, _, _)
ReadPropName(sgfText, i, propName) ==
  IF i < Len(sgfText) /\ IsUpperCase(sgfText[i + 1])
  THEN ReadPropName(sgfText, i + 1, Append(propName, sgfText[i + 1]))
  ELSE [propName |-> propName, i |-> i]

\* the loop reading one value after its '[', and the consuming of its ']'
RECURSIVE ReadPropValue(_, _, _, _)
ReadPropValue(sgfText, i, propValue, escape) ==
  IF i >= Len(sgfText) THEN [propValue |-> propValue, i |-> i]
  ELSE IF escape
    THEN ReadPropValue(sgfText, i + 1, Append(propValue, sgfText[i + 1]), FALSE)
  ELSE IF sgfText[i + 1] = "\\"
    THEN ReadPropValue(sgfText, i + 1, propValue, TRUE)
  ELSE IF sgfText[i + 1] = "]"
    THEN [propValue |-> propValue, i |-> i + 1]
  ELSE ReadPropValue(sgfText, i + 1, Append(propValue, sgfText[i + 1]), FALSE)

\* the loop reading the bracketed values of one property
RECURSIVE ReadPropValues(_, _, _)
ReadPropValues(sgfText, i, values) ==
  IF i < Len(sgfText) /\ sgfText[i + 1] = "["
  THEN LET v == ReadPropValue(sgfText, i + 1, <<>>, FALSE)
       IN ReadPropValues(sgfText, v.i, Append(values, v.propValue))
  ELSE [values |-> values, i |-> i]

\* parentForVariation.variations.push(variationSequence)
AttachVariation(stack, target, variationSequence) ==
  [stack EXCEPT ![target].nodes[Len(stack[target].nodes)].variations =
                   Append(@, variationSequence)]

\* parseSgfIntoSequence up to its call of parseSgfNodesRecursive
ParserStart(text) ==
  LET trimmed == trim(text)
      enclosed == /\ Len(trimmed) > 0
                  /\ trimmed[1] = "("
                  /\ trimmed[Len(trimmed)] = ")"
      wrapped == Len(trimmed) > 0 /\ trimmed[1] = ";"
      sgfText == IF enclosed THEN trimmed ELSE <<"(">> \o trimmed \o <<")">>
  IN [sgfText |-> sgfText,
      i |-> 1,
      pc |-> IF enclosed \/ wrapped THEN "sequence" ELSE "returned",
      stack |-> <<[nodes |-> <<>>, ctx |-> 0]>>,
      sgfNode |-> NewSgfNode]

\* one iteration of the node loop
SequenceStep(ps) ==
  LET depth == Len(ps.stack)
      frame == ps.stack[depth]
      atEnd == ps.i >= Len(ps.sgfText)
      char == IF atEnd THEN "" ELSE ps.sgfText[ps.i + 1]
  IN IF ~atEnd /\ char = ";"
       THEN [ps EXCEPT !.i = ps.i + 1, !.pc = "properties",
                       !.sgfNode = NewSgfNode]
     ELSE IF ~atEnd /\ char = "("
       THEN [ps EXCEPT !.i = ps.i + 1,
                       !.stack = Append(ps.stack,
                          [nodes |-> <<>>,
                           ctx |-> IF frame.nodes # <<>> THEN depth
                                   ELSE frame.ctx])]
     ELSE IF ~atEnd /\ char # ")"
       THEN [ps EXCEPT !.i = ps.i + 1]
     ELSE IF depth = 1
       THEN [ps EXCEPT !.pc = "returned"]
     ELSE LET callers == SubSeq(ps.stack, 1, depth - 1)
          IN [ps EXCEPT
                !.stack = IF frame.ctx # 0 /\ frame.nodes # <<>>
                          THEN AttachVariation(callers, frame.ctx, frame.nodes)
                          ELSE callers,
                !.i = IF ~atEnd /\ char = ")" THEN ps.i + 1 ELSE ps.i]

\* one iteration of the property loop
PropertiesStep(ps) ==
  LET atEnd == ps.i >= Len(ps.sgfText)
      char == IF atEnd THEN "" ELSE ps.sgfText[ps.i + 1]
      name == ReadPropName(ps.sgfText, ps.i, <<>>)
      vals == ReadPropValues(ps.sgfText, name.i, <<>>)
  IN IF atEnd \/ char \in {"(", ")", ";"}
       THEN [ps EXCEPT !.pc = "sequence",
                       !.stack[Len(ps.stack)].nodes = Append(@, ps.sgfNode)]
     ELSE IF name.propName = <<>>
       THEN IF char # "[" THEN [ps EXCEPT !.i = ps.i + 1] ELSE ps
     ELSE [ps EXCEPT !.i = vals.i,
                     !.sgfNode.properties =
                        SetProp(@, name.propName, vals.values)]

ParseStep(ps) ==
  IF ps.pc = "sequence" THEN SequenceStep(ps)
  ELSE IF ps.pc = "properties" THEN PropertiesStep(ps)
  ELSE ps

\* the pass is in a loop iteration that changes nothing, so it repeats it
LoopsForever(ps) == ps.pc # "returned" /\ ParseStep(ps) = ps

RECURSIVE ParseRun(_)
ParseRun(ps) ==
  IF ps.pc = "returned" \/ LoopsForever(ps) THEN ps
  ELSE ParseRun(ParseStep(ps))

\* SgfNode[] | null, and whether the call returns at all
parseSgfIntoSequence(text) ==
  LET final == ParseRun(ParserStart(text))
  IN [returns |-> final.pc = "returned",
      sequence |-> IF final.pc = "returned" /\ final.stack[1].nodes # <<>>
                   THEN <<final.stack[1].nodes>> ELSE <<>>]

----------------------------------------------------------------------------
(* Numbers read from property values.  A number that may be NaN is a       *)
(* nullable integer.  Komi is held in tenths of a point; the KM values of  *)
(* the texts enumerated here carry at most one fractional digit, so the    *)
(* tenths are the exact value.                                             *)

Digits == <<"0", "1", "2", "3", "4", "5", "6", "7", "8", "9">>
IsDigit(ch) == \E d \in 1..10 : Digits[d] = ch
DigitValue(ch) == (CHOOSE d \in 1..10 : Digits[d] = ch) - 1

RECURSIVE ReadDigits(_, _)
ReadDigits(s, acc) ==
  IF s # <<>> /\ IsDigit(s[1])
  THEN ReadDigits(Tail(s), [value |-> 10 * acc.value + DigitValue(s[1]),
                            count |-> acc.count + 1, rest |-> Tail(s)])
  ELSE acc

\* parseInt(string) on decimal text: NaN is <<>>
parseInt(string) ==
  LET s == trimStart(string)
      signed == s # <<>> /\ s[1] \in {"-", "+"}
      body == IF signed THEN Tail(s) ELSE s
      digits == ReadDigits(body, [value |-> 0, count |-> 0, rest |-> body])
  IN IF digits.count = 0 THEN <<>>
     ELSE IF signed /\ s[1] = "-" THEN <<0 - digits.value>>
     ELSE <<digits.value>>

\* parseFloat(string) on decimal text, in tenths: NaN is <<>>
parseFloat(string) ==
  LET s == trimStart(string)
      signed == s # <<>> /\ s[1] \in {"-", "+"}
      body == IF signed THEN Tail(s) ELSE s
      whole == ReadDigits(body, [value |-> 0, count |-> 0, rest |-> body])
      point == whole.rest # <<>> /\ whole.rest[1] = "."
      frac == IF point /\ Len(whole.rest) > 1 /\ IsDigit(whole.rest[2])
              THEN DigitValue(whole.rest[2]) ELSE 0
      hasFrac == point /\ Len(whole.rest) > 1 /\ IsDigit(whole.rest[2])
      tenths == 10 * whole.value + frac
  IN IF whole.count = 0 /\ ~hasFrac THEN <<>>
     ELSE IF signed /\ s[1] = "-" THEN <<0 - tenths>>
     ELSE <<tenths>>

\* constants.ts: DEFAULT_KOMI = 6.5, in tenths
DEFAULT_KOMI == 65

HANDICAP_POINTS_19 ==
  LET a == Pt(3, 15)  b == Pt(15, 3)  c == Pt(3, 3)  d == Pt(15, 15)
      e == Pt(9, 9)   f == Pt(3, 9)   g == Pt(15, 9) h == Pt(9, 3)
      k == Pt(9, 15)
  IN [n \in 2..9 |->
        CASE n = 2 -> <<a, b>>
          [] n = 3 -> <<a, b, c>>
          [] n = 4 -> <<a, b, c, d>>
          [] n = 5 -> <<a, b, c, d, e>>
          [] n = 6 -> <<a, b, c, d, f, g>>
          [] n = 7 -> <<a, b, c, d, f, g, e>>
          [] n = 8 -> <<a, b, c, d, f, g, h, k>>
          [] n = 9 -> <<a, b, c, d, f, g, h, k, e>>]

HANDICAP_POINTS_13 ==
  [n \in 2..4 |-> SubSeq(<<Pt(3, 9), Pt(9, 3), Pt(3, 3), Pt(9, 9)>>, 1, n)]

HANDICAP_POINTS_9 ==
  [n \in 2..4 |-> SubSeq(<<Pt(2, 6), Pt(6, 2), Pt(2, 2), Pt(6, 6)>>, 1, n)]

\* the handicap points of a board size and a handicap, [] when none is listed
HandicapPointsFor(boardSize, handicap) ==
  LET table == IF boardSize = 19 THEN HANDICAP_POINTS_19
               ELSE IF boardSize = 13 THEN HANDICAP_POINTS_13
               ELSE IF boardSize = 9 THEN HANDICAP_POINTS_9
               ELSE <<>>
  IN IF handicap \in DOMAIN table THEN table[handicap] ELSE <<>>

----------------------------------------------------------------------------
(* Property names *)
KeyB == <<"B">>
KeyW == <<"W">>
KeyAB == <<"A", "B">>
KeyAW == <<"A", "W">>
KeyAE == <<"A", "E">>
KeyPL == <<"P", "L">>
KeyC == <<"C">>
KeySZ == <<"S", "Z">>
KeyKM == <<"K", "M">>
KeyHA == <<"H", "A">>
KeyGN == <<"G", "N">>
KeyPB == <<"P", "B">>
KeyPW == <<"P", "W">>
KeyBR == <<"B", "R">>
KeyWR == <<"W", "R">>
KeyDT == <<"D", "T">>
KeyRE == <<"R", "E">>
KeyRU == <<"R", "U">>
KeyGM == <<"G", "M">>
KeyFF == <<"F", "F">>
KeyCA == <<"C", "A">>
KeyAP == <<"A", "P">>
KeyST == <<"S", "T">>
KeyTR == <<"T", "R">>

\* props['PL']?.[0]?.toUpperCase() === letter
PLIs(props, letter) ==
  /\ FirstValue(props, KeyPL) # <<>>
  /\ [k \in 1..Len(FirstValue(props, KeyPL)[1]) |->
        toUpperCase(FirstValue(props, KeyPL)[1][k])] = <<letter>>

\* a truthy string | undefined
Truthy(nullableString) == nullableString # <<>> /\ nullableString[1] # <<>>

----------------------------------------------------------------------------
(* The resolution pass: convertSgfSequenceToGameTree and parseSgf.         *)
(*                                                                         *)
(* The node map is the sequence of the GameTreeNodes in the order they are *)
(* entered into it, and a node's id is its position there (the ids of the  *)
(* code are unique random strings).  player and coord are nullable.        *)

\* props[propName].forEach(sgfCoordStr => ...) of one setup property
RECURSIVE PlaceSetupStones(_, _, _, _)
PlaceSetupStones(board, coords, color, boardSize) ==
  IF coords = <<>> THEN board
  ELSE LET p == sgfCoordToPoint(coords[1])
       IN PlaceSetupStones(
            IF p # <<>> /\ p[1].r < boardSize /\ p[1].c < boardSize
            THEN SetCell(board, p[1], color) ELSE board,
            Tail(coords), color, boardSize)

SetupOf(board, props, key, color, boardSize) ==
  IF HasProp(props, key)
  THEN PlaceSetupStones(board, PropValues(props, key), color, boardSize)
  ELSE board

\* ['AB', 'AW', 'AE'].forEach(...)
ApplySetupProps(board, props, boardSize) ==
  SetupOf(SetupOf(SetupOf(board, props, KeyAB, Black, boardSize),
                  props, KeyAW, White, boardSize),
          props, KeyAE, Empty, boardSize)

HasSetupProps(props) ==
  HasProp(props, KeyAB) \/ HasProp(props, KeyAW) \/ HasProp(props, KeyAE)

\* props['B'][0] or props['W'][0] is undefined: sgfCoordToPoint throws
MoveValueMissing(props) ==
  IF HasProp(props, KeyB) THEN PropValues(props, KeyB) = <<>>
  ELSE HasProp(props, KeyW) /\ PropValues(props, KeyW) = <<>>

\* the point of the node's B or W property, null for a pass or a point
\* outside the board
MoveCoordOf(props, boardSize) ==
  LET sgfCoordStr == IF MoveValueMissing(props) THEN <<>>
                     ELSE PropValues(props, IF HasProp(props, KeyB)
                                            THEN KeyB ELSE KeyW)[1]
  IN IF sgfCoordToPoint(sgfCoordStr) # <<>>
        /\ (sgfCoordToPoint(sgfCoordStr)[1].r >= boardSize
            \/ sgfCoordToPoint(sgfCoordStr)[1].c >= boardSize)
     THEN <<>> ELSE sgfCoordToPoint(sgfCoordStr)

\* the ko state the node's move is checked against
SetupKoOf(props, context) ==
  IF HasSetupProps(props) \/ HasProp(props, KeyPL)
  THEN NoKo ELSE context.parentKoState

\* ResolvedNode with the stone of a refused move written on the board
ResolvedNodeForcingMove(props, context, gameNodeId, setupBoard, setupKo, coord, result) ==
  LET plPlayer == IF HasProp(props, KeyPL) /\ PLIs(props, "W") THEN White
                  ELSE IF HasProp(props, KeyPL) /\ PLIs(props, "B") THEN Black
                  ELSE context.currentPlayerFromParent
      isActualMove == HasProp(props, KeyB) \/ HasProp(props, KeyW)
      playerForThisNode == IF HasProp(props, KeyB) THEN Black ELSE White
      played == isActualMove /\ coord # <<>> /\ result.error = NoError
      captured == IF played THEN result.stonesCapturedInThisMove ELSE <<>>
  IN [node |->
        [id |-> gameNodeId,
         parentId |-> context.parentGameNodeId,
         childrenIds |-> <<>>,
         sgfProps |-> props,
         player |-> IF isActualMove THEN <<playerForThisNode>> ELSE <<>>,
         coord |-> IF isActualMove THEN coord ELSE <<>>,
         moveNumber |-> IF isActualMove THEN context.currentMoveNumber + 1
                        ELSE context.currentMoveNumber,
         boardState |-> IF played THEN result.newBoard
                        ELSE IF isActualMove /\ coord # <<>>
                          THEN SetCell(setupBoard, coord[1], playerForThisNode)
                        ELSE setupBoard,
         stonesCapturedInThisStep |-> captured,
         totalCapturedByBlack |->
            context.parentTotalCapturedB
              + (IF played /\ playerForThisNode = Black THEN Len(captured) ELSE 0),
         totalCapturedByWhite |->
            context.parentTotalCapturedW
              + (IF played /\ playerForThisNode = White THEN Len(captured) ELSE 0),
         koState |-> IF played THEN result.newKoState
                     ELSE IF isActualMove /\ coord = <<>> THEN NoKo
                     ELSE setupKo,
         comment |-> FirstValue(props, KeyC),
         isMainLineNext |-> FALSE],
      nextPlayerForChildren |->
         IF isActualMove THEN Opponent(playerForThisNode) ELSE plPlayer]

\* the GameTreeNode, given the board after setup, the move's point and
\* what applyMove makes of the move
ResolvedNode(props, context, gameNodeId, setupBoard, setupKo, coord, result) ==
  LET plPlayer == IF HasProp(props, KeyPL) /\ PLIs(props, "W") THEN White
                  ELSE IF HasProp(props, KeyPL) /\ PLIs(props, "B") THEN Black
                  ELSE context.currentPlayerFromParent
      isActualMove == HasProp(props, KeyB) \/ HasProp(props, KeyW)
      playerForThisNode == IF HasProp(props, KeyB) THEN Black ELSE White
      played == isActualMove /\ coord # <<>> /\ result.error = NoError
      captured == IF played THEN result.stonesCapturedInThisMove ELSE <<>>
  IN [node |->
        [id |-> gameNodeId,
         parentId |-> context.parentGameNodeId,
         childrenIds |-> <<>>,
         sgfProps |-> props,
         player |-> IF isActualMove THEN <<playerForThisNode>> ELSE <<>>,
         coord |-> IF isActualMove THEN coord ELSE <<>>,
         moveNumber |-> IF isActualMove THEN context.currentMoveNumber + 1
                        ELSE context.currentMoveNumber,
         boardState |-> IF played THEN result.newBoard ELSE setupBoard,
         stonesCapturedInThisStep |-> captured,
         totalCapturedByBlack |->
            context.parentTotalCapturedB
              + (IF played /\ playerForThisNode = Black THEN Len(captured) ELSE 0),
         totalCapturedByWhite |->
            context.parentTotalCapturedW
              + (IF played /\ playerForThisNode = White THEN Len(captured) ELSE 0),
         koState |-> IF played THEN result.newKoState
                     ELSE IF isActualMove /\ coord = <<>> THEN NoKo
                     ELSE setupKo,
         comment |-> FirstValue(props, KeyC),
         isMainLineNext |-> FALSE],
      nextPlayerForChildren |->
         IF isActualMove THEN Opponent(playerForThisNode) ELSE plPlayer]

\* the node with its move played on the board after setup
ResolveMove(props, context, gameNodeId, setupBoard, setupKo, coord) ==
  ResolvedNode(props, context, gameNodeId, setupBoard, setupKo, coord,
               applyMove(setupBoard, IF HasProp(props, KeyB) THEN Black ELSE White,
                         coord[1], setupKo))

\* the GameTreeNode of one SgfNode, before its children are linked
ResolveNode(sgfNode, context, gameNodeId) ==
  ResolveMove(sgfNode.properties, context, gameNodeId,
              ApplySetupProps(cloneBoard(context.parentBoard),
                              sgfNode.properties, context.boardSize),
              SetupKoOf(sgfNode.properties, context),
              MoveCoordOf(sgfNode.properties, context.boardSize))

ChildContext(gameTreeNode, nextPlayerForChildren, boardSize) ==
  [parentBoard |-> gameTreeNode.boardState,
   parentTotalCapturedB |-> gameTreeNode.totalCapturedByBlack,
   parentTotalCapturedW |-> gameTreeNode.totalCapturedByWhite,
   parentKoState |-> gameTreeNode.koState,
   parentGameNodeId |-> gameTreeNode.id,
   currentMoveNumber |-> gameTreeNode.moveNumber,
   boardSize |-> boardSize,
   currentPlayerFromParent |-> nextPlayerForChildren]

\* LinkContinuation with push in place of unshift: the continuation comes
\* after the variations
LinkContinuationPushed(gameNodeId, variationsDone, continuation) ==
  [allGameNodes |->
     [continuation.allGameNodes EXCEPT
        ![gameNodeId].childrenIds =
           Append(variationsDone.childrenIds, continuation.gameNodeId),
        ![gameNodeId].isMainLineNext = TRUE],
   gameNodeId |-> gameNodeId]

\* allGameNodes[gameNodeId] with its children: the continuation first and
\* flagged as the main line, then the variations
LinkContinuation(gameNodeId, variationsDone, continuation) ==
  [allGameNodes |->
     [continuation.allGameNodes EXCEPT
        ![gameNodeId].childrenIds =
           <<continuation.gameNodeId>> \o variationsDone.childrenIds,
        ![gameNodeId].isMainLineNext = TRUE],
   gameNodeId |-> gameNodeId]

\* childrenIds.push(variationRootGameNodeId)
CollectVariation(acc, done) ==
  [allGameNodes |-> done.allGameNodes,
   childrenIds |-> Append(acc.childrenIds, done.gameNodeId)]

RECURSIVE convertSgfSequenceToGameTree(_, _, _, _)
RECURSIVE ConvertVariations(_, _, _, _)

\* sgfNode.variations.forEach(...): the variations from the k-th on
ConvertVariations(variations, k, context, acc) ==
  IF k > Len(variations) THEN acc
  ELSE IF variations[k] = <<>>
    THEN ConvertVariations(variations, k + 1, context, acc)
  ELSE ConvertVariations(variations, k + 1, context,
         CollectVariation(acc,
           convertSgfSequenceToGameTree(variations[k], 0, context,
                                        acc.allGameNodes)))

\* the continuation of the sequence, once the variations are converted
LinkChildren(sgfSequence, currentIndexInSequence, gameNodeId, childProcessingContext, variationsDone) ==
  IF currentIndexInSequence + 1 < Len(sgfSequence)
  THEN LinkContinuation(gameNodeId, variationsDone,
         convertSgfSequenceToGameTree(sgfSequence, currentIndexInSequence + 1,
                                      childProcessingContext,
                                      variationsDone.allGameNodes))
  ELSE [allGameNodes |->
          [variationsDone.allGameNodes EXCEPT
             ![gameNodeId].childrenIds = variationsDone.childrenIds],
        gameNodeId |-> gameNodeId]

\* the children of the node made, variations before the continuation
ConvertChildren(sgfSequence, currentIndexInSequence, allGameNodes, newNode, childProcessingContext) ==
  LinkChildren(sgfSequence, currentIndexInSequence, Len(allGameNodes) + 1,
               childProcessingContext,
               ConvertVariations(
                 sgfSequence[currentIndexInSequence + 1].variations, 1,
                 childProcessingContext,
                 [allGameNodes |-> Append(allGameNodes, newNode),
                  childrenIds |-> <<>>]))

ConvertResolved(sgfSequence, currentIndexInSequence, context, allGameNodes, resolved) ==
  ConvertChildren(sgfSequence, currentIndexInSequence, allGameNodes,
                  resolved.node,
                  ChildContext(resolved.node, resolved.nextPlayerForChildren,
                               context.boardSize))

\* returns the node map as the call leaves it and the id of the node made
convertSgfSequenceToGameTree(sgfSequence, currentIndexInSequence, context, allGameNodes) ==
  ConvertResolved(sgfSequence, currentIndexInSequence, context, allGameNodes,
                  ResolveNode(sgfSequence[currentIndexInSequence + 1], context,
                              Len(allGameNodes) + 1))

\* some node of the sequence or of its variations has a B or W property
\* without a value, so the resolution pass throws a TypeError
RECURSIVE SequenceThrows(_)
SequenceThrows(sgfSequence) ==
  \E k \in 1..Len(sgfSequence) :
     \/ MoveValueMissing(sgfSequence[k].properties)
     \/ \E v \in 1..Len(sgfSequence[k].variations) :
           SequenceThrows(sgfSequence[k].variations[v])

\* the node whose SZ property gives the board size
SzPropNode(sgfInitialSequence) ==
  LET rootSgfNode == sgfInitialSequence[1]
  IN IF /\ ~HasProp(rootSgfNode.properties, KeySZ)
        /\ Len(sgfInitialSequence) > 1
        /\ HasProp(sgfInitialSequence[2].properties, KeySZ)
       THEN sgfInitialSequence[2]
     ELSE IF /\ ~HasProp(rootSgfNode.properties, KeySZ)
             /\ Len(rootSgfNode.variations) > 0
             /\ Len(rootSgfNode.variations[1]) > 0
             /\ HasProp(rootSgfNode.variations[1][1].properties, KeySZ)
       THEN rootSgfNode.variations[1][1]
     ELSE rootSgfNode

\* the board size parseSgf settles on, before its range check
BoardSizeOf(sgfInitialSequence) ==
  LET szProps == SzPropNode(sgfInitialSequence).properties
      parsedSize == IF FirstValue(szProps, KeySZ) = <<>> THEN <<>>
                    ELSE parseInt(FirstValue(szProps, KeySZ)[1])
  IN IF HasProp(szProps, KeySZ) /\ parsedSize # <<>> /\ parsedSize[1] > 0
     THEN parsedSize[1] ELSE DEFAULT_BOARD_SIZE

GameInfoOf(rootSgfProps, boardSize) ==
  LET defaultKomi == IF boardSize >= 19 THEN DEFAULT_KOMI ELSE 0
      komi == IF FirstValue(rootSgfProps, KeyKM) = <<>> THEN <<>>
              ELSE parseFloat(FirstValue(rootSgfProps, KeyKM)[1])
      handicap == IF FirstValue(rootSgfProps, KeyHA) = <<>> THEN <<>>
                  ELSE parseInt(FirstValue(rootSgfProps, KeyHA)[1])
  IN [boardSize |-> boardSize,
      name |-> FirstValue(rootSgfProps, KeyGN),
      playerBlack |-> IF Truthy(FirstValue(rootSgfProps, KeyPB))
                      THEN FirstValue(rootSgfProps, KeyPB)
                      ELSE <<<<"B", "l", "a", "c", "k">>>>,
      playerWhite |-> IF Truthy(FirstValue(rootSgfProps, KeyPW))
                      THEN FirstValue(rootSgfProps, KeyPW)
                      ELSE <<<<"W", "h", "i", "t", "e">>>>,
      rankBlack |-> FirstValue(rootSgfProps, KeyBR),
      rankWhite |-> FirstValue(rootSgfProps, KeyWR),
      date |-> FirstValue(rootSgfProps, KeyDT),
      result |-> FirstValue(rootSgfProps, KeyRE),
      komi |-> IF HasProp(rootSgfProps, KeyKM) /\ komi # <<>>
               THEN komi[1] ELSE defaultKomi,
      handicap |-> IF HasProp(rootSgfProps, KeyHA) /\ handicap # <<>>
                   THEN handicap[1] ELSE 0,
      ruleset |-> FirstValue(rootSgfProps, KeyRU),
      sgfComment |-> FirstValue(rootSgfProps, KeyC),
      originalRootSgfProps |-> rootSgfProps,
      parsedRootNodeId |-> 1]

\* handicapPoints?.forEach(p => ...)
RECURSIVE PlaceHandicap(_, _, _)
PlaceHandicap(board, points, boardSize) ==
  IF points = <<>> THEN board
  ELSE PlaceHandicap(
         IF points[1].r < boardSize /\ points[1].c < boardSize
         THEN SetCell(board, points[1], Black) ELSE board,
         Tail(points), boardSize)

\* the player the game opens with, read off the converted tree
FinalInitialPlayer(allGameNodes, rootProcessedNode, playerToMove) ==
  IF rootProcessedNode.player # <<>>
    THEN Opponent(rootProcessedNode.player[1])
  ELSE IF /\ Len(rootProcessedNode.childrenIds) > 0
          /\ allGameNodes[rootProcessedNode.childrenIds[1]].player # <<>>
    THEN allGameNodes[rootProcessedNode.childrenIds[1]].player[1]
  ELSE IF HasProp(rootProcessedNode.sgfProps, KeyPL)
          /\ PLIs(rootProcessedNode.sgfProps, "W") THEN White
  ELSE IF HasProp(rootProcessedNode.sgfProps, KeyPL)
          /\ PLIs(rootProcessedNode.sgfProps, "B") THEN Black
  ELSE playerToMove

\* the FullGameData around the converted tree
ResolvedGame(gameInfo, playerToMove, tree) ==
  [outcome |-> "game",
   game |-> [info |-> gameInfo,
             rootNodeId |-> tree.gameNodeId,
             nodes |-> tree.allGameNodes,
             initialPlayerForDisplay |->
               FinalInitialPlayer(tree.allGameNodes,
                                  tree.allGameNodes[tree.gameNodeId],
                                  playerToMove)]]

\* the conversion, from the board the root starts on
ResolveTree(sgfInitialSequence, boardSize, gameInfo, playerToMove, initialBoard) ==
  ResolvedGame(gameInfo, playerToMove,
    convertSgfSequenceToGameTree(sgfInitialSequence, 0,
      [parentBoard |-> initialBoard,
       parentTotalCapturedB |-> 0,
       parentTotalCapturedW |-> 0,
       parentKoState |-> NoKo,
       parentGameNodeId |-> NoNode,
       currentMoveNumber |-> 0,
       boardSize |-> boardSize,
       currentPlayerFromParent |-> playerToMove],
      <<>>))

\* handicap stones, root setup stones and the player to move first
ResolveRoot(sgfInitialSequence, boardSize, gameInfo) ==
  LET rootSgfProps == sgfInitialSequence[1].properties
      handicapApplies == gameInfo.handicap > 0 /\ ~HasProp(rootSgfProps, KeyAB)
      handicapBoard ==
        IF handicapApplies
        THEN PlaceHandicap(createEmptyBoard(boardSize),
                           HandicapPointsFor(boardSize, gameInfo.handicap),
                           boardSize)
        ELSE createEmptyBoard(boardSize)
  IN ResolveTree(sgfInitialSequence, boardSize, gameInfo,
                 IF handicapApplies \/ PLIs(rootSgfProps, "W")
                 THEN White ELSE Black,
                 ApplySetupProps(handicapBoard, rootSgfProps, boardSize))

\* parseSgf with the range check moved up by one
ResolveSizedWide(sgfInitialSequence, boardSize) ==
  IF boardSize > 53 \/ boardSize < 2 THEN [outcome |-> "null"]
  ELSE IF SequenceThrows(sgfInitialSequence) THEN [outcome |-> "throws"]
  ELSE ResolveRoot(sgfInitialSequence, boardSize,
                   GameInfoOf(sgfInitialSequence[1].properties, boardSize))

ResolveSized(sgfInitialSequence, boardSize) ==
  IF boardSize > 52 \/ boardSize < 2 THEN [outcome |-> "null"]
  ELSE IF SequenceThrows(sgfInitialSequence) THEN [outcome |-> "throws"]
  ELSE ResolveRoot(sgfInitialSequence, boardSize,
                   GameInfoOf(sgfInitialSequence[1].properties, boardSize))

\* parseSgf from the raw sequence on
ResolveGame(sgfInitialSequence) ==
  ResolveSized(sgfInitialSequence, BoardSizeOf(sgfInitialSequence))

\* FullGameData | null, an exception, or no return at all
parseSgf(sgfText) ==
  LET raw == parseSgfIntoSequence(sgfText)
  IN IF ~raw.returns THEN [outcome |-> "never returns"]
     ELSE IF raw.sequence = <<>> THEN [outcome |-> "null"]
     ELSE ResolveGame(raw.sequence[1])

----------------------------------------------------------------------------
(* The SGF generator: App.tsx *)

DEFAULT_APP_NAME ==
  <<"G", "o", "B", "o", "a", "r", "d", "S", "G", "F", "V", "i", "e", "w",
    "e", "r", "_", "O", "n", "l", "i", "n", "e">>

\* String(n) of an integer
RECURSIVE NatToString(_)
NatToString(n) ==
  IF n < 10 THEN <<Digits[n + 1]>>
  ELSE NatToString(n \div 10) \o <<Digits[(n % 10) + 1]>>

IntToString(n) ==
  IF n < 0 THEN <<"-">> \o NatToString(0 - n) ELSE NatToString(n)

\* komi % 1 === 0 ? String(komi) : komi.toFixed(1), komi in tenths
FormatKomi(komi) ==
  LET magnitude == IF komi < 0 THEN 0 - komi ELSE komi
      sign == IF komi < 0 THEN <<"-">> ELSE <<>>
  IN IF magnitude % 10 = 0 THEN sign \o NatToString(magnitude \div 10)
     ELSE sign \o NatToString(magnitude \div 10) \o <<".">>
               \o NatToString(magnitude % 10)

\* escapeSgfValue without its first replace: only ']' is escaped
RECURSIVE escapeSgfValueBracketOnly(_)
escapeSgfValueBracketOnly(value) ==
  IF value = <<>> THEN <<>>
  ELSE (IF value[1] = "]" THEN <<"\\", "]">>
        ELSE <<value[1]>>) \o escapeSgfValueBracketOnly(Tail(value))

\* value.replace(/\\/g, '\\\\').replace(/]/g, '\\]')
RECURSIVE escapeSgfValue(_)
escapeSgfValue(value) ==
  IF value = <<>> THEN <<>>
  ELSE (IF value[1] = "\\" THEN <<"\\", "\\">>
        ELSE IF value[1] = "]" THEN <<"\\", "]">>
        ELSE <<value[1]>>) \o escapeSgfValue(Tail(value))

formatSingleProperty(key, values) ==
  IF values = <<>> THEN <<>>
  ELSE key \o Concat([k \in 1..Len(values) |->
                        <<"[">> \o escapeSgfValue(values[k]) \o <<"]">>])

ROOT_PROP_ORDER ==
  <<<<"G", "M">>, <<"F", "F">>, <<"C", "A">>, <<"A", "P">>, <<"S", "T">>,
    <<"S", "Z">>, <<"R", "U">>, <<"K", "M">>, <<"H", "A">>, <<"P", "L">>,
    <<"D", "T">>, <<"E", "V">>, <<"R", "O">>, <<"P", "C">>, <<"R", "E">>,
    <<"S", "O">>, <<"G", "N">>, <<"P", "B">>, <<"P", "W">>, <<"B", "R">>,
    <<"W", "R">>, <<"B", "T">>, <<"W", "T">>, <<"T", "M">>, <<"O", "T">>,
    <<"A", "B">>, <<"A", "W">>, <<"A", "E">>, <<"C">>>>

NODE_PROP_ORDER ==
  <<<<"B">>, <<"W">>, <<"P", "L">>, <<"A", "B">>, <<"A", "W">>,
    <<"A", "E">>, <<"C">>, <<"M", "N">>, <<"N">>, <<"V">>, <<"T", "R">>,
    <<"S", "Q">>, <<"C", "R">>, <<"M", "A">>, <<"L", "B">>, <<"S", "L">>,
    <<"D", "D">>, <<"A", "R">>, <<"L", "N">>, <<"D", "M">>, <<"G", "B">>,
    <<"G", "W">>, <<"U", "C">>, <<"T", "E">>, <<"B", "M">>, <<"D", "O">>,
    <<"I", "T">>, <<"H", "O">>>>

formatAllProperties(sgfProps, isRoot) ==
  LET order == IF isRoot THEN ROOT_PROP_ORDER ELSE NODE_PROP_ORDER
      ordered == SelectSeq(order, LAMBDA key :
                    HasProp(sgfProps, key) /\ PropValues(sgfProps, key) # <<>>)
      others == SelectSeq(sgfProps, LAMBDA e :
                    ~Contains(ordered, e.key) /\ e.values # <<>>)
  IN Concat([k \in 1..Len(ordered) |->
               formatSingleProperty(ordered[k], PropValues(sgfProps, ordered[k]))])
     \o Concat([k \in 1..Len(others) |->
               formatSingleProperty(others[k].key, others[k].values)])

\* a run of conditional assignments rootProps[key] = values
RECURSIVE Assign(_, _)
Assign(props, assignments) ==
  IF assignments = <<>> THEN props
  ELSE Assign(IF assignments[1].when
              THEN SetProp(props, assignments[1].key, assignments[1].values)
              ELSE props,
              Tail(assignments))

\* ApplyLiveProps giving way to the layers below: a live list is written
\* only under a key the merged bag does not hold yet
RECURSIVE ApplyLivePropsBelow(_, _)
ApplyLivePropsBelow(rootProps, live) ==
  IF live = <<>> THEN rootProps
  ELSE ApplyLivePropsBelow(IF live[1].values # <<>>
                           THEN IF HasProp(rootProps, live[1].key) THEN rootProps
                                ELSE SetProp(rootProps, live[1].key, live[1].values)
                           ELSE DeleteProp(rootProps, live[1].key),
                           Tail(live))

\* layer 4: the live properties of the root node, in for..in order
RECURSIVE ApplyLiveProps(_, _)
ApplyLiveProps(rootProps, live) ==
  IF live = <<>> THEN rootProps
  ELSE ApplyLiveProps(IF live[1].values # <<>>
                      THEN SetProp(rootProps, live[1].key, live[1].values)
                      ELSE DeleteProp(rootProps, live[1].key),
                      Tail(live))

\* the merged property bag of the serialized root node
RootProps(nodeInternal, gameInfoInternal, initialPlayerForDisplay) ==
  LET info == gameInfoInternal
      original == info.originalRootSgfProps
      layered ==
        Assign(original,
          << [when |-> TRUE, key |-> KeyGM, values |-> <<<<"1">>>>],
             [when |-> TRUE, key |-> KeyFF, values |-> <<<<"4">>>>],
             [when |-> TRUE, key |-> KeyCA,
              values |-> <<<<"U", "T", "F", "-", "8">>>>],
             [when |-> TRUE, key |-> KeyAP, values |-> <<DEFAULT_APP_NAME>>],
             [when |-> TRUE, key |-> KeyST, values |-> <<<<"2">>>>],
             [when |-> info.boardSize # 0, key |-> KeySZ,
              values |-> <<IntToString(info.boardSize)>>],
             [when |-> Truthy(info.ruleset), key |-> KeyRU,
              values |-> info.ruleset],
             [when |-> TRUE, key |-> KeyKM,
              values |-> <<FormatKomi(info.komi)>>],
             [when |-> info.handicap > 0, key |-> KeyHA,
              values |-> <<IntToString(info.handicap)>>],
             [when |-> Truthy(info.date), key |-> KeyDT, values |-> info.date],
             [when |-> Truthy(info.result), key |-> KeyRE,
              values |-> info.result],
             [when |-> Truthy(info.name), key |-> KeyGN, values |-> info.name],
             [when |-> Truthy(info.playerBlack), key |-> KeyPB,
              values |-> info.playerBlack],
             [when |-> Truthy(info.playerWhite), key |-> KeyPW,
              values |-> info.playerWhite],
             [when |-> Truthy(info.rankBlack), key |-> KeyBR,
              values |-> info.rankBlack],
             [when |-> Truthy(info.rankWhite), key |-> KeyWR,
              values |-> info.rankWhite],
             [when |-> /\ ~HasProp(original, KeyPL)
                       /\ ~HasProp(nodeInternal.sgfProps, KeyPL),
              key |-> KeyPL, values |-> <<<<initialPlayerForDisplay>>>>] >>)
      live == ApplyLiveProps(layered, nodeInternal.sgfProps)
  IN IF /\ Truthy(info.sgfComment)
        /\ (~HasProp(live, KeyC) \/ PropValues(live, KeyC) = <<>>)
     THEN SetProp(live, KeyC, info.sgfComment)
     ELSE live

RECURSIVE gameTreeToSgfRecursiveInternal(_, _, _, _, _)
gameTreeToSgfRecursiveInternal(nodeIdInternal, allNodesInternal, gameInfoInternal, initialPlayerForDisplay, isActualRootSgfNode) ==
  IF nodeIdInternal \notin DOMAIN allNodesInternal THEN <<>>
  ELSE
    LET nodeInternal == allNodesInternal[nodeIdInternal]
        childrenInternal ==
          SelectSeq(nodeInternal.childrenIds,
                    LAMBDA id : id \in DOMAIN allNodesInternal)
        Child(id) ==
          gameTreeToSgfRecursiveInternal(id, allNodesInternal,
            gameInfoInternal, initialPlayerForDisplay, FALSE)
        Wrapped(id) == <<"(">> \o Child(id) \o <<")">>
        inlineFirst == /\ nodeInternal.childrenIds # <<>>
                       /\ nodeInternal.isMainLineNext
                       /\ nodeInternal.childrenIds[1] \in DOMAIN allNodesInternal
    IN (IF isActualRootSgfNode
        THEN <<"(", ";">>
               \o formatAllProperties(
                    RootProps(nodeInternal, gameInfoInternal,
                              initialPlayerForDisplay), TRUE)
        ELSE <<";">> \o formatAllProperties(nodeInternal.sgfProps, FALSE))
       \o (IF inlineFirst
           THEN Child(childrenInternal[1])
                  \o Concat([k \in 1..(Len(childrenInternal) - 1) |->
                               Wrapped(childrenInternal[k + 1])])
           ELSE Concat([k \in 1..Len(childrenInternal) |->
                          Wrapped(childrenInternal[k])]))
       \o (IF isActualRootSgfNode THEN <<")">> ELSE <<>>)

\* the text served when there is no game to serialize
NoGameSgf(errorKomi, boardSize) ==
  <<"(", ";", "G", "M", "[", "1", "]", "F", "F", "[", "4", "]", "C", "A",
    "[", "U", "T", "F", "-", "8", "]", "A", "P", "[">> \o DEFAULT_APP_NAME
  \o <<"]", "S", "Z", "[">> \o IntToString(boardSize)
  \o <<"]", "K", "M", "[">> \o errorKomi
  \o <<"]", "C", "[", "E", "r", "r", "o", "r", ":", " ", "N", "o", " ", "g",
       "a", "m", "e", " ", "d", "a", "t", "a", " ", "t", "o", " ", "g", "e",
       "n", "e", "r", "a", "t", "e", " ", "S", "G", "F", " ", "f", "r", "o",
       "m", ".", "]", ")">>

\* the argument is nullable: <<>> is null
generateSgfString(fullGameData) ==
  IF fullGameData = <<>> \/ fullGameData[1].rootNodeId \notin DOMAIN fullGameData[1].nodes
  THEN NoGameSgf(IF fullGameData = <<>> THEN FormatKomi(DEFAULT_KOMI)
                 ELSE FormatKomi(fullGameData[1].info.komi),
                 IF fullGameData = <<>> \/ fullGameData[1].info.boardSize = 0
                 THEN DEFAULT_BOARD_SIZE ELSE fullGameData[1].info.boardSize)
  ELSE gameTreeToSgfRecursiveInternal(fullGameData[1].rootNodeId,
         fullGameData[1].nodes, fullGameData[1].info,
         fullGameData[1].initialPlayerForDisplay, TRUE)

----------------------------------------------------------------------------
(* App.tsx: the game data and the component state the handlers read and    *)
(* write.  gameData is nullable.  The display copies of the current node   *)
(* (board, comment, move number, markup lists) are functions of gameData   *)
(* and currentNodeId, which every handler refreshes through                *)
(* updateStateFromNodeId, and are read from the node here.                 *)

NewGameName ==
  <<"u041d", "u043e", "u0432", "u0430", "u044f", " ", "u0438", "u0433",
    "u0440", "u0430">>
NewGameComment ==
  <<"u0418", "u0433", "u0440", "u0430", " ", "u0441", "u043e", "u0437",
    "u0434", "u0430", "u043d", "u0430", " ", "u0432", " ", "M", "o", "d",
    "e", "r", "n", " ", "G", "o", " ", "S", "G", "F", " ", "V", "i", "e",
    "w", "e", "r", ".">>
NewGameRootComment ==
  <<"G", "a", "m", "e", " ", "c", "r", "e", "a", "t", "e", "d", " ", "i",
    "n", " ", "M", "o", "d", "e", "r", "n", " ", "G", "o", " ", "S", "G",
    "F", " ", "V", "i", "e", "w", "e", "r", ".">>
DefaultPlayerBlack ==
  <<"u0427", "u0435", "u0440", "u043d", "u044b", "u0435">>
DefaultPlayerWhite ==
  <<"u0411", "u0435", "u043b", "u044b", "u0435">>

\* EditTool
EDIT_MODE_SELECT == "EDIT_MODE_SELECT"
PLACE_BLACK == "PLACE_BLACK"
PLACE_WHITE == "PLACE_WHITE"
REMOVE_STONE == "REMOVE_STONE"
ADD_TRIANGLE == "ADD_TRIANGLE"

\* gameSettings: [boardSize, komi, handicap, playerColor]; the names and
\* ranks of the settings are left empty, the time settings disabled
createNewGameData(gameSettings) ==
  LET newRootId == 1
      boardSize == IF gameSettings.boardSize # 0 THEN gameSettings.boardSize
                   ELSE DEFAULT_BOARD_SIZE
      komi == IF gameSettings.komi # 0 THEN gameSettings.komi ELSE DEFAULT_KOMI
      handicap == gameSettings.handicap
      initialPlayer == IF handicap > 0 THEN White ELSE Black
      handicapPoints == IF handicap > 0
                        THEN HandicapPointsFor(boardSize, handicap) ELSE <<>>
      baseProps ==
        << [key |-> KeyC, values |-> <<NewGameRootComment>>],
           [key |-> KeyPL, values |-> <<<<initialPlayer>>>>],
           [key |-> KeySZ, values |-> <<IntToString(boardSize)>>],
           [key |-> KeyKM, values |-> <<FormatKomi(komi)>>],
           [key |-> KeyAP, values |-> <<DEFAULT_APP_NAME>>],
           [key |-> KeyGM, values |-> <<<<"1">>>>],
           [key |-> KeyFF, values |-> <<<<"4">>>>],
           [key |-> KeyCA, values |-> <<<<"U", "T", "F", "-", "8">>>>],
           [key |-> KeyST, values |-> <<<<"2">>>>] >>
      withHandicap ==
        IF handicap > 0
        THEN SetProp(baseProps, KeyHA, <<IntToString(handicap)>>)
        ELSE baseProps
      initialRootNodeSgfProps ==
        IF handicapPoints # <<>>
        THEN SetProp(withHandicap, KeyAB,
                     [k \in 1..Len(handicapPoints) |->
                        pointToSgfCoord(handicapPoints[k])])
        ELSE withHandicap
  IN [info |->
        [boardSize |-> boardSize,
         name |-> <<NewGameName>>,
         playerBlack |-> <<DefaultPlayerBlack>>,
         playerWhite |-> <<DefaultPlayerWhite>>,
         rankBlack |-> <<<<>>>>,
         rankWhite |-> <<<<>>>>,
         date |-> <<>>,
         result |-> <<>>,
         komi |-> komi,
         handicap |-> handicap,
         ruleset |-> <<>>,
         sgfComment |-> <<NewGameComment>>,
         originalRootSgfProps |-> initialRootNodeSgfProps,
         parsedRootNodeId |-> newRootId],
      rootNodeId |-> newRootId,
      nodes |->
        << [id |-> newRootId,
            parentId |-> NoNode,
            childrenIds |-> <<>>,
            sgfProps |-> initialRootNodeSgfProps,
            player |-> <<>>,
            coord |-> <<>>,
            moveNumber |-> 0,
            boardState |-> PlaceHandicap(createEmptyBoard(boardSize),
                                         handicapPoints, boardSize),
            stonesCapturedInThisStep |-> <<>>,
            totalCapturedByBlack |-> 0,
            totalCapturedByWhite |-> 0,
            koState |-> NoKo,
            comment |-> <<>>,
            isMainLineNext |-> FALSE] >>,
      initialPlayerForDisplay |-> initialPlayer]

\* the player the UI shows to move at a node
NextPlayerAt(node, dataToUse) ==
  IF Truthy(FirstValue(node.sgfProps, KeyPL))
    THEN IF PLIs(node.sgfProps, "W") THEN White ELSE Black
  ELSE IF node.player # <<>> THEN Opponent(node.player[1])
  ELSE IF /\ Len(node.childrenIds) > 0
          /\ node.childrenIds[1] \in DOMAIN dataToUse.nodes
          /\ dataToUse.nodes[node.childrenIds[1]].player # <<>>
    THEN dataToUse.nodes[node.childrenIds[1]].player[1]
  ELSE dataToUse.initialPlayerForDisplay

\* PathTo stopping at the parent of the node
PathToFromParent(nodes, nodeId) ==
  IF nodes[nodeId].parentId = NoNode THEN <<nodeId>>
  ELSE <<nodes[nodeId].parentId, nodeId>>

\* the parent walk that rebuilds the active path
RECURSIVE PathTo(_, _)
PathTo(nodes, nodeId) ==
  IF nodes[nodeId].parentId = NoNode THEN <<nodeId>>
  ELSE Append(PathTo(nodes, nodes[nodeId].parentId), nodeId)

----------------------------------------------------------------------------
(* App.tsx: the pure parts of the handlers *)

\* parseSgfPointList(propValues, boardSize)
RECURSIVE parseSgfPointList(_, _)
parseSgfPointList(propValues, boardSize) ==
  IF propValues = <<>> THEN <<>>
  ELSE LET point == sgfCoordToPoint(propValues[1])
       IN (IF point # <<>> /\ point[1].r < boardSize /\ point[1].c < boardSize
           THEN point ELSE <<>>)
          \o parseSgfPointList(Tail(propValues), boardSize)

\* if (props[key]) props[key] = props[key].filter(c => c !== sgfCoord)
FilterProp(props, key, sgfCoord) ==
  IF HasProp(props, key)
  THEN SetProp(props, key, Without(PropValues(props, key), sgfCoord))
  ELSE props

\* if (!props[key]) props[key] = []; if (!includes) push(sgfCoord)
PushProp(props, key, sgfCoord) ==
  IF ~HasProp(props, key) THEN SetProp(props, key, <<sgfCoord>>)
  ELSE IF Contains(PropValues(props, key), sgfCoord) THEN props
  ELSE SetProp(props, key, Append(PropValues(props, key), sgfCoord))

\* filter, and delete the key when nothing is left
FilterOrDeleteProp(props, key, sgfCoord) ==
  IF HasProp(props, key) /\ Without(PropValues(props, key), sgfCoord) = <<>>
  THEN DeleteProp(props, key)
  ELSE FilterProp(props, key, sgfCoord)

\* a stone taken off the board by a setup edit: out of AB/AW, into AE
MoveToAE(props, sgfCoord) ==
  PushProp(FilterProp(FilterProp(props, KeyAB, sgfCoord), KeyAW, sgfCoord),
           KeyAE, sgfCoord)

\* StoneRemoval with the ko state of the node left as the move gave it
StoneRemovalKeepingKo(node, point, boardSize) ==
  LET hasStone == node.boardState[point.r][point.c] # Empty
      sgfCoord == pointToSgfCoord(point)
      hasTriangle ==
        /\ HasProp(node.sgfProps, KeyTR)
        /\ Contains(parseSgfPointList(PropValues(node.sgfProps, KeyTR),
                                      boardSize), point)
      afterStone == IF hasStone THEN MoveToAE(node.sgfProps, sgfCoord)
                    ELSE node.sgfProps
      afterMarkup == IF hasTriangle
                     THEN FilterOrDeleteProp(afterStone, KeyTR, sgfCoord)
                     ELSE afterStone
  IN IF ~hasStone /\ ~hasTriangle THEN node
     ELSE [node EXCEPT
             !.sgfProps = afterMarkup,
             !.boardState = IF hasStone THEN SetCell(node.boardState, point, Empty)
                            ELSE cloneBoard(node.boardState),
             !.player = <<>>,
             !.coord = <<>>,
             !.stonesCapturedInThisStep = <<>>]

\* handleStoneRemoval: the updated node, or the node itself when the click
\* finds neither a stone nor a triangle
StoneRemoval(node, point, boardSize) ==
  LET hasStone == node.boardState[point.r][point.c] # Empty
      sgfCoord == pointToSgfCoord(point)
      hasTriangle ==
        /\ HasProp(node.sgfProps, KeyTR)
        /\ Contains(parseSgfPointList(PropValues(node.sgfProps, KeyTR),
                                      boardSize), point)
      afterStone == IF hasStone THEN MoveToAE(node.sgfProps, sgfCoord)
                    ELSE node.sgfProps
      afterMarkup == IF hasTriangle
                     THEN FilterOrDeleteProp(afterStone, KeyTR, sgfCoord)
                     ELSE afterStone
  IN IF ~hasStone /\ ~hasTriangle THEN node
     ELSE [node EXCEPT
             !.sgfProps = afterMarkup,
             !.boardState = IF hasStone THEN SetCell(node.boardState, point, Empty)
                            ELSE cloneBoard(node.boardState),
             !.koState = NoKo,
             !.player = <<>>,
             !.coord = <<>>,
             !.stonesCapturedInThisStep = <<>>]

\* ClearSetupGroup taking the stones off the board only: the lists of the
\* node are left as they were
RECURSIVE ClearSetupGroupKeepingLists(_, _)
ClearSetupGroupKeepingLists(edit, group) ==
  IF group = <<>> THEN edit
  ELSE ClearSetupGroupKeepingLists(
         [board |-> SetCell(edit.board, group[1], Empty),
          props |-> edit.props],
         Tail(group))

\* group.forEach(s => ...) of a group cleared by a setup placement
RECURSIVE ClearSetupGroup(_, _)
ClearSetupGroup(edit, group) ==
  IF group = <<>> THEN edit
  ELSE ClearSetupGroup(
         [board |-> SetCell(edit.board, group[1], Empty),
          props |-> MoveToAE(edit.props, pointToSgfCoord(group[1]))],
         Tail(group))

\* for (const n of neighbors) of a setup placement
RECURSIVE ClearSetupNeighbors(_, _, _, _)
ClearSetupNeighbors(edit, neighbors, opponent, boardSize) ==
  IF neighbors = <<>> THEN edit
  ELSE LET n == neighbors[1]
           dead == /\ isInBounds(n.r, n.c, boardSize)
                   /\ edit.board[n.r][n.c] = opponent
                   /\ getGroupAndLiberties(edit.board, n.r, n.c).liberties = <<>>
       IN ClearSetupNeighbors(
            IF dead
            THEN ClearSetupGroup(edit,
                   getGroupAndLiberties(edit.board, n.r, n.c).group)
            ELSE edit,
            Tail(neighbors), opponent, boardSize)

\* StonePlacement with the stones it takes off the board added to the
\* totals of the node, as a move would
StonePlacementCountingCaptures(node, point, stoneColor, boardSize) ==
  LET sgfCoord == pointToSgfCoord(point)
      cleared == FilterOrDeleteProp(
                   FilterOrDeleteProp(
                     FilterOrDeleteProp(node.sgfProps, KeyAB, sgfCoord),
                     KeyAW, sgfCoord),
                   KeyAE, sgfCoord)
      propKey == IF stoneColor = Black THEN KeyAB ELSE KeyAW
      placed == [board |-> SetCell(node.boardState, point, stoneColor),
                 props |-> DeleteProp(DeleteProp(
                             PushProp(cleared, propKey, sgfCoord), KeyB), KeyW)]
      captured == ClearSetupNeighbors(placed, NeighborsOf(point),
                                      Opponent(stoneColor), boardSize)
      own == getGroupAndLiberties(captured.board, point.r, point.c)
      final == IF own.liberties = <<>> THEN ClearSetupGroup(captured, own.group)
               ELSE captured
  IN [node EXCEPT
        !.sgfProps = final.props,
        !.boardState = final.board,
        !.koState = NoKo,
        !.player = <<>>,
        !.coord = <<>>,
        !.stonesCapturedInThisStep = <<>>,
        !.totalCapturedByBlack =
           @ + Cardinality({ p \in PointsOf(node.boardState) :
                               /\ node.boardState[p.r][p.c] = White
                               /\ final.board[p.r][p.c] = Empty }),
        !.totalCapturedByWhite =
           @ + Cardinality({ p \in PointsOf(node.boardState) :
                               /\ node.boardState[p.r][p.c] = Black
                               /\ final.board[p.r][p.c] = Empty })]

\* handleBoardClick with the PLACE_BLACK or PLACE_WHITE tool: the updated node
StonePlacement(node, point, stoneColor, boardSize) ==
  LET sgfCoord == pointToSgfCoord(point)
      cleared == FilterOrDeleteProp(
                   FilterOrDeleteProp(
                     FilterOrDeleteProp(node.sgfProps, KeyAB, sgfCoord),
                     KeyAW, sgfCoord),
                   KeyAE, sgfCoord)
      propKey == IF stoneColor = Black THEN KeyAB ELSE KeyAW
      placed == [board |-> SetCell(node.boardState, point, stoneColor),
                 props |-> DeleteProp(DeleteProp(
                             PushProp(cleared, propKey, sgfCoord), KeyB), KeyW)]
      captured == ClearSetupNeighbors(placed, NeighborsOf(point),
                                      Opponent(stoneColor), boardSize)
      own == getGroupAndLiberties(captured.board, point.r, point.c)
      final == IF own.liberties = <<>> THEN ClearSetupGroup(captured, own.group)
               ELSE captured
  IN [node EXCEPT
        !.sgfProps = final.props,
        !.boardState = final.board,
        !.koState = NoKo,
        !.player = <<>>,
        !.coord = <<>>,
        !.stonesCapturedInThisStep = <<>>]

\* handleBoardClick with a markup tool (TR, SQ, CR and MA take the same
\* branch with their own key): the point is toggled in the list
MarkupToggle(node, point, propKey) ==
  LET sgfCoord == pointToSgfCoord(point)
      propList == IF HasProp(node.sgfProps, propKey)
                  THEN PropValues(node.sgfProps, propKey) ELSE <<>>
      toggled == IF Contains(propList, sgfCoord)
                 THEN LET first == CHOOSE k \in 1..Len(propList) :
                                      /\ propList[k] = sgfCoord
                                      /\ \A j \in 1..(k - 1) : propList[j] # sgfCoord
                      IN SubSeq(propList, 1, first - 1)
                           \o SubSeq(propList, first + 1, Len(propList))
                 ELSE Append(propList, sgfCoord)
  IN [node EXCEPT
        !.sgfProps = IF toggled # <<>> THEN SetProp(@, propKey, toggled)
                     ELSE DeleteProp(@, propKey)]

\* AppendedMove with the new child put in place of the children already
\* there
AppendedMoveAlone(data, parentId, playerMakingMove, point, moveResult) ==
  LET parent == data.nodes[parentId]
      newNodeId == Len(data.nodes) + 1
      captures == Len(moveResult.stonesCapturedInThisMove)
      newNode ==
        [id |-> newNodeId,
         parentId |-> parentId,
         childrenIds |-> <<>>,
         sgfProps |-> << [key |-> IF playerMakingMove = Black THEN KeyB ELSE KeyW,
                          values |-> <<pointToSgfCoord(point)>>] >>,
         player |-> <<playerMakingMove>>,
         coord |-> <<point>>,
         moveNumber |-> parent.moveNumber + 1,
         boardState |-> moveResult.newBoard,
         stonesCapturedInThisStep |-> moveResult.stonesCapturedInThisMove,
         totalCapturedByBlack |-> parent.totalCapturedByBlack
            + (IF playerMakingMove = Black THEN captures ELSE 0),
         totalCapturedByWhite |-> parent.totalCapturedByWhite
            + (IF playerMakingMove = White THEN captures ELSE 0),
         koState |-> moveResult.newKoState,
         comment |-> <<>>,
         isMainLineNext |-> FALSE]
  IN [data EXCEPT
        !.nodes = Append(
           [@ EXCEPT ![parentId].childrenIds =
                        <<newNodeId>>,
                     ![parentId].isMainLineNext = TRUE],
           newNode)]

\* AppendedMove with the new child put after the children already there
AppendedMoveLast(data, parentId, playerMakingMove, point, moveResult) ==
  LET parent == data.nodes[parentId]
      newNodeId == Len(data.nodes) + 1
      captures == Len(moveResult.stonesCapturedInThisMove)
      newNode ==
        [id |-> newNodeId,
         parentId |-> parentId,
         childrenIds |-> <<>>,
         sgfProps |-> << [key |-> IF playerMakingMove = Black THEN KeyB ELSE KeyW,
                          values |-> <<pointToSgfCoord(point)>>] >>,
         player |-> <<playerMakingMove>>,
         coord |-> <<point>>,
         moveNumber |-> parent.moveNumber + 1,
         boardState |-> moveResult.newBoard,
         stonesCapturedInThisStep |-> moveResult.stonesCapturedInThisMove,
         totalCapturedByBlack |-> parent.totalCapturedByBlack
            + (IF playerMakingMove = Black THEN captures ELSE 0),
         totalCapturedByWhite |-> parent.totalCapturedByWhite
            + (IF playerMakingMove = White THEN captures ELSE 0),
         koState |-> moveResult.newKoState,
         comment |-> <<>>,
         isMainLineNext |-> FALSE]
  IN [data EXCEPT
        !.nodes = Append(
           [@ EXCEPT ![parentId].childrenIds =
                        Without(parent.childrenIds, newNodeId) \o <<newNodeId>>,
                     ![parentId].isMainLineNext = TRUE],
           newNode)]

\* the new child of a successful play and the relinked parent
AppendedMove(data, parentId, playerMakingMove, point, moveResult) ==
  LET parent == data.nodes[parentId]
      newNodeId == Len(data.nodes) + 1
      captures == Len(moveResult.stonesCapturedInThisMove)
      newNode ==
        [id |-> newNodeId,
         parentId |-> parentId,
         childrenIds |-> <<>>,
         sgfProps |-> << [key |-> IF playerMakingMove = Black THEN KeyB ELSE KeyW,
                          values |-> <<pointToSgfCoord(point)>>] >>,
         player |-> <<playerMakingMove>>,
         coord |-> <<point>>,
         moveNumber |-> parent.moveNumber + 1,
         boardState |-> moveResult.newBoard,
         stonesCapturedInThisStep |-> moveResult.stonesCapturedInThisMove,
         totalCapturedByBlack |-> parent.totalCapturedByBlack
            + (IF playerMakingMove = Black THEN captures ELSE 0),
         totalCapturedByWhite |-> parent.totalCapturedByWhite
            + (IF playerMakingMove = White THEN captures ELSE 0),
         koState |-> moveResult.newKoState,
         comment |-> <<>>,
         isMainLineNext |-> FALSE]
  IN [data EXCEPT
        !.nodes = Append(
           [@ EXCEPT ![parentId].childrenIds =
                        <<newNodeId>> \o Without(parent.childrenIds, newNodeId),
                     ![parentId].isMainLineNext = TRUE],
           newNode)]

\* handleSgfLoad: the walk that finds the highest move number of the main line
RECURSIVE MainLineMax(_, _, _, _)
MainLineMax(nodes, tempNodeId, visitedInLoad, currentMaxMoves) ==
  LET tempNode == nodes[tempNodeId]
      preferred == SelectSeq(tempNode.childrenIds, LAMBDA id :
                      nodes[id].isMainLineNext
                        \/ nodes[id].moveNumber > tempNode.moveNumber)
      firstChildId == IF tempNode.isMainLineNext \/ preferred = <<>>
                      THEN tempNode.childrenIds[1] ELSE preferred[1]
  IN IF tempNode.childrenIds = <<>> \/ tempNodeId \in visitedInLoad
     THEN currentMaxMoves
     ELSE MainLineMax(nodes, firstChildId, visitedInLoad \cup {tempNodeId},
                      IF nodes[firstChildId].moveNumber > currentMaxMoves
                      THEN nodes[firstChildId].moveNumber ELSE currentMaxMoves)

----------------------------------------------------------------------------
(* App.tsx: the component's handlers as actions.  gameData is the nullable  *)
(* FullGameData, a node id is the node's position in gameData.nodes.        *)

\* the most nodes a tree is grown to by plays
MaxNodes == 3

\* the most in-place edits (setup stones, removals, markup) made on a tree
MaxEdits == 1

\* the points of a board, the clicks the board view can deliver
BoardPoints(boardSize) ==
  { Pt(r, c) : r \in 0..(boardSize - 1), c \in 0..(boardSize - 1) }

Op(kind, arg) == [kind |-> kind, arg |-> arg]

\* updateStateFromNodeId(nodeId, newGameData)
updateStateFromNodeId(nodeId, dataToUse) ==
  IF dataToUse = <<>> \/ nodeId \notin DOMAIN dataToUse[1].nodes
  THEN /\ currentFullKoState' = NoKo
       /\ currentPlayerForInfo' =
            IF dataToUse = <<>> THEN Black
            ELSE dataToUse[1].initialPlayerForDisplay
       /\ activePath' = IF dataToUse = <<>> THEN <<>>
                        ELSE <<dataToUse[1].rootNodeId>>
       /\ currentNodeId' = IF dataToUse = <<>> THEN NoNode
                           ELSE dataToUse[1].rootNodeId
  ELSE LET node == dataToUse[1].nodes[nodeId]
       IN /\ currentFullKoState' = node.koState
          /\ currentNodeId' = nodeId
          /\ currentPlayerForInfo' = NextPlayerAt(node, dataToUse[1])
          /\ activePath' = PathTo(dataToUse[1].nodes, nodeId)

\* navigateToNode(nodeId, prospectiveGameData)
navigateToNode(nodeId, dataToUseForNavigation) ==
  /\ updateStateFromNodeId(nodeId, <<dataToUseForNavigation>>)
  /\ editModePlayer' =
       IF isEditMode /\ nodeId \in DOMAIN dataToUseForNavigation.nodes
       THEN NextPlayerAt(dataToUseForNavigation.nodes[nodeId],
                         dataToUseForNavigation)
       ELSE editModePlayer

\* activePath.indexOf(nodeId), 0 when absent
IndexOf(list, x) ==
  IF Contains(list, x)
  THEN CHOOSE k \in 1..Len(list) :
         list[k] = x /\ \A j \in 1..(k - 1) : list[j] # x
  ELSE 0

\* array.find(test), as a nullable: the first element of the matches
Find(found) ==
  IF found = <<>> THEN <<>> ELSE <<found[1]>>

\* handleNavigation('last'): the while loop
RECURSIVE LastWalk(_, _, _, _)
LastWalk(nodes, lastNodeId, visitedNav, path) ==
  LET tempNode == nodes[lastNodeId]
      onPath == Find(SelectSeq(tempNode.childrenIds, LAMBDA id :
                  Contains(path, id) /\ nodes[id].moveNumber > tempNode.moveNumber))
      later == Find(SelectSeq(tempNode.childrenIds, LAMBDA id :
                  nodes[id].moveNumber > tempNode.moveNumber))
      mainChildId == IF tempNode.isMainLineNext THEN tempNode.childrenIds[1]
                     ELSE IF onPath # <<>> THEN onPath[1]
                     ELSE IF later # <<>> THEN later[1]
                     ELSE tempNode.childrenIds[1]
  IN IF tempNode.childrenIds = <<>> \/ lastNodeId \in visitedNav
     THEN lastNodeId
     ELSE LastWalk(nodes, mainChildId, visitedNav \cup {lastNodeId}, path)

LastTarget ==
  LastWalk(gameData[1].nodes,
           IF IndexOf(activePath, currentNodeId) # 0
           THEN activePath[Len(activePath)] ELSE currentNodeId,
           {}, activePath)

\* handleNavigation: the node the target resolves to, NoNode for none
NavigationTarget(target) ==
  LET nodes == gameData[1].nodes
      currentNode == nodes[currentNodeId]
      currentActiveIndex == IndexOf(activePath, currentNodeId)
      nextInActivePath ==
        IF currentActiveIndex # 0 /\ currentActiveIndex + 1 <= Len(activePath)
        THEN activePath[currentActiveIndex + 1] ELSE NoNode
      onPath == Find(SelectSeq(activePath, LAMBDA nodeId :
                  nodes[nodeId].moveNumber = target.value + 1))
      potentialNodes == SelectSeq([k \in 1..Len(nodes) |-> k], LAMBDA nodeId :
                  nodes[nodeId].moveNumber = target.value + 1)
  IN CASE target.kind = "first" -> gameData[1].rootNodeId
       [] target.kind = "prev" -> currentNode.parentId
       [] target.kind = "next" ->
            IF currentNode.childrenIds = <<>> THEN NoNode
            ELSE IF nextInActivePath # NoNode
                    /\ Contains(currentNode.childrenIds, nextInActivePath)
              THEN nextInActivePath
            ELSE currentNode.childrenIds[1]
       [] target.kind = "last" -> LastTarget
       [] target.kind = "id" -> target.value
       [] target.kind = "number" ->
            IF target.value = -1 THEN gameData[1].rootNodeId
            ELSE IF onPath # <<>> THEN onPath[1]
            ELSE IF potentialNodes # <<>> THEN potentialNodes[1]
            ELSE IF target.value >= maxMainLineMoveNumber - 1
                    /\ maxMainLineMoveNumber > 0
              THEN LastTarget
            ELSE NoNode

NavTargets ==
  { [kind |-> k, value |-> 0] : k \in {"first", "prev", "next", "last"} }
    \cup { [kind |-> "id", value |-> id] : id \in 1..MaxNodes }
    \cup { [kind |-> "number", value |-> n] : n \in (-1)..MaxNodes }

handleNavigation(target) ==
  /\ gameData # <<>>
  /\ currentNodeId \in DOMAIN gameData[1].nodes
  /\ NavigationTarget(target) \in DOMAIN gameData[1].nodes
  /\ navigateToNode(NavigationTarget(target), gameData[1])
  /\ lastOp' = Op("navigate", IF target.kind \in {"prev", "next"}
                               THEN <<target.kind, currentNodeId>> ELSE <<>>)
  /\ UNCHANGED <<gameData, isEditMode, activeEditTool, maxMainLineMoveNumber,
                 edits, rulesVars, draftVars, parserVars>>

\* setGameData with the current node replaced, then updateStateFromNodeId
InstallNode(updatedNode) ==
  /\ edits < MaxEdits
  /\ gameData' = <<[gameData[1] EXCEPT !.nodes[currentNodeId] = updatedNode]>>
  /\ updateStateFromNodeId(currentNodeId, gameData')
  /\ edits' = edits + 1
  /\ UNCHANGED <<isEditMode, activeEditTool, maxMainLineMoveNumber,
                 rulesVars, draftVars, parserVars>>

\* handleStoneRemoval(point)
handleStoneRemoval(point) ==
  LET currentSgfNode == gameData[1].nodes[currentNodeId]
      updatedNode == StoneRemoval(currentSgfNode, point, gameData[1].info.boardSize)
  IN /\ updatedNode # currentSgfNode
     /\ InstallNode(updatedNode)
     /\ lastOp' = Op("remove", <<point>>)
     /\ UNCHANGED editModePlayer

\* the tail of the edit tools: PL decides whose turn the editor shows
InstallEdited(updatedNode, kind, point) ==
  /\ InstallNode(updatedNode)
  /\ editModePlayer' =
       IF Truthy(FirstValue(updatedNode.sgfProps, KeyPL))
       THEN IF PLIs(updatedNode.sgfProps, "W") THEN White ELSE Black
       ELSE editModePlayer
  /\ lastOp' = Op(kind, <<point>>)

\* PlayMove with the error of the rules engine ignored: the child is
\* appended on the board the engine hands back
PlayMoveIgnoringError(point, playerMakingMove) ==
  LET currentSgfNode == gameData[1].nodes[currentNodeId]
  IN /\ Len(gameData[1].nodes) < MaxNodes
     /\ \E moveResult \in { applyMove(currentSgfNode.boardState, playerMakingMove,
                                      point, currentFullKoState) } :
          /\ \E newFullGameData \in { AppendedMove(gameData[1], currentNodeId,
                                         playerMakingMove, point, moveResult) } :
               /\ gameData' = <<newFullGameData>>
               /\ maxMainLineMoveNumber' =
                    IF currentSgfNode.moveNumber + 1 > maxMainLineMoveNumber
                    THEN currentSgfNode.moveNumber + 1
                    ELSE maxMainLineMoveNumber
               /\ navigateToNode(Len(newFullGameData.nodes), newFullGameData)
          /\ lastOp' = IF moveResult.error = NoError
                       THEN Op("appendMove", <<point>>)
                       ELSE Op("rejected", <<point, moveResult.error>>)
     /\ UNCHANGED <<isEditMode, activeEditTool, edits,
                    rulesVars, draftVars, parserVars>>

\* a play on an empty point: the rules engine refuses it and the handler
\* returns after its alert, or the child is appended and becomes current
PlayMove(point, playerMakingMove) ==
  LET currentSgfNode == gameData[1].nodes[currentNodeId]
  IN \E moveResult \in { applyMove(currentSgfNode.boardState, playerMakingMove,
                                   point, currentFullKoState) } :
       IF moveResult.error # NoError
       THEN /\ lastOp' = Op("rejected", <<point, moveResult.error>>)
            /\ UNCHANGED <<gameData, currentNodeId, activePath,
                           currentFullKoState, currentPlayerForInfo,
                           editModePlayer, isEditMode, activeEditTool,
                           maxMainLineMoveNumber, edits,
                           rulesVars, draftVars, parserVars>>
       ELSE /\ Len(gameData[1].nodes) < MaxNodes
            /\ \E newFullGameData \in { AppendedMove(gameData[1], currentNodeId,
                                           playerMakingMove, point, moveResult) } :
                 /\ gameData' = <<newFullGameData>>
                 /\ maxMainLineMoveNumber' =
                      IF currentSgfNode.moveNumber + 1 > maxMainLineMoveNumber
                      THEN currentSgfNode.moveNumber + 1
                      ELSE maxMainLineMoveNumber
                 /\ navigateToNode(Len(newFullGameData.nodes), newFullGameData)
            /\ lastOp' = Op("appendMove", <<point>>)
            /\ UNCHANGED <<isEditMode, activeEditTool, edits,
                           rulesVars, draftVars, parserVars>>

\* the name a game must carry to be played on outside edit mode
PlayableGameName == <<"N", "e", "w", " ", "G", "a", "m", "e">>

\* handleBoardClick(point)
handleBoardClick(point) ==
  /\ gameData # <<>>
  /\ currentNodeId \in DOMAIN gameData[1].nodes
  /\ LET currentSgfNode == gameData[1].nodes[currentNodeId]
         boardSize == gameData[1].info.boardSize
     IN IF isEditMode
        THEN CASE activeEditTool = EDIT_MODE_SELECT ->
                    IF currentSgfNode.boardState[point.r][point.c] # Empty
                    THEN handleStoneRemoval(point)
                    ELSE PlayMove(point, editModePlayer)
               [] activeEditTool \in {PLACE_BLACK, PLACE_WHITE} ->
                    InstallEdited(
                      StonePlacement(currentSgfNode, point,
                        IF activeEditTool = PLACE_BLACK THEN Black ELSE White,
                        boardSize),
                      "place", point)
               [] activeEditTool = REMOVE_STONE -> handleStoneRemoval(point)
               [] activeEditTool = ADD_TRIANGLE ->
                    InstallEdited(MarkupToggle(currentSgfNode, point, KeyTR),
                                  "markup", point)
               [] OTHER -> FALSE
        ELSE /\ gameData[1].info.name = <<PlayableGameName>>
             /\ currentSgfNode.boardState[point.r][point.c] = Empty
             /\ PlayMove(point, currentPlayerForInfo)

EditTools == {EDIT_MODE_SELECT, PLACE_BLACK, PLACE_WHITE, REMOVE_STONE, ADD_TRIANGLE}

\* the toolbar and the tool keys, live only in edit mode
setActiveEditTool(tool) ==
  /\ isEditMode
  /\ activeEditTool' = tool
  /\ lastOp' = Op("tool", <<>>)
  /\ UNCHANGED <<gameData, currentNodeId, activePath, currentFullKoState,
                 currentPlayerForInfo, isEditMode, editModePlayer,
                 maxMainLineMoveNumber, edits, rulesVars, draftVars, parserVars>>

\* createNewGameData() without settings
NoSettings == [boardSize |-> 0, komi |-> 0, handicap |-> 0, playerColor |-> Black]

\* handleToggleEditMode, on the game it finds or makes
ToggleEditModeOn(currentGd) ==
  LET enteringEditMode == ~isEditMode
      hasNode == currentNodeId \in DOMAIN currentGd.nodes
      nodeToUse == currentGd.nodes[currentNodeId]
      root == currentGd.nodes[currentGd.rootNodeId]
  IN /\ isEditMode' = enteringEditMode
     /\ activeEditTool' = IF enteringEditMode THEN EDIT_MODE_SELECT ELSE NoTool
     /\ gameData' = IF enteringEditMode THEN <<currentGd>> ELSE gameData
     /\ IF enteringEditMode /\ gameData = <<>>
        THEN /\ maxMainLineMoveNumber' = 0
             /\ currentNodeId' = currentGd.rootNodeId
             /\ activePath' = <<currentGd.rootNodeId>>
             /\ currentPlayerForInfo' = NextPlayerAt(root, currentGd)
        ELSE UNCHANGED <<maxMainLineMoveNumber, currentNodeId, activePath,
                         currentPlayerForInfo>>
     /\ editModePlayer' =
          IF ~enteringEditMode THEN editModePlayer
          ELSE IF ~hasNode THEN currentPlayerForInfo
          ELSE IF Truthy(FirstValue(nodeToUse.sgfProps, KeyPL))
            THEN IF PLIs(nodeToUse.sgfProps, "W") THEN White ELSE Black
          ELSE IF nodeToUse.player # <<>> THEN Opponent(nodeToUse.player[1])
          ELSE currentGd.initialPlayerForDisplay
     /\ currentFullKoState' =
          IF hasNode THEN nodeToUse.koState
          ELSE IF enteringEditMode /\ gameData = <<>> THEN root.koState
          ELSE currentFullKoState
     /\ lastOp' = Op("toggle", <<>>)
     /\ UNCHANGED <<edits, rulesVars, draftVars, parserVars>>

\* handleToggleEditMode
handleToggleEditMode ==
  \E currentGd \in { IF gameData = <<>> THEN createNewGameData(NoSettings)
                     ELSE gameData[1] } :
    ToggleEditModeOn(currentGd)

\* the files offered to the loader
NewGameText ==
  <<"(", ";", "G", "M", "[", "1", "]", "S", "Z", "[", "2", "]", "G", "N", "[", "N", "e", "w", " ", "G", "a", "m", "e", "]", ")">>
VariationsText ==
  <<"(", ";", "S", "Z", "[", "2", "]", ";", "B", "[", "a", "a", "]", "(", ";", "W", "[", "a", "b", "]", ")", "(", ";", "W", "[", "b", "b", "]", ")", ")">>
SetupText ==
  <<"(", ";", "S", "Z", "[", "2", "]", "A", "B", "[", "a", "a", "]", "A", "W", "[", "a", "b", "]", "P", "L", "[", "W", "]", ";", "A", "E", "[", "a", "a", "]", ";", "B", "[", "a", "a", "]", ")">>

\* a 3x3 corner in which Black's move at aa takes the stone at ba as a ko,
\* with a comment on the root
KoText ==
  <<"(", ";", "S", "Z", "[", "3", "]", "A", "B", "[", "c", "a", "]", "[", "b", "b", "]", "A", "W", "[", "b", "a", "]", "[", "a", "b", "]", "C", "[", "k", "]", ";", "B", "[", "a", "a", "]", ")">>

LoadTexts == {NewGameText, VariationsText, SetupText, KoText}

\* parseSgf on each of them
ParsedText == [sgfText \in LoadTexts |-> parseSgf(sgfText)]

\* handleSgfLoad(sgfText, fileName) and, when the load fails and leaves no
\* game, the effect that puts a default new game in its place; a parse that
\* never returns leaves the handler without a next state
handleSgfLoad(sgfText) ==
  \E parsedData \in { ParsedText[sgfText] } :
    /\ parsedData.outcome # "never returns"
    /\ IF parsedData.outcome = "game"
       THEN /\ gameData' = <<parsedData.game>>
            /\ isEditMode' = FALSE
            /\ activeEditTool' = NoTool
            /\ maxMainLineMoveNumber' =
                 MainLineMax(parsedData.game.nodes, parsedData.game.rootNodeId, {},
                   parsedData.game.nodes[parsedData.game.rootNodeId].moveNumber)
       ELSE /\ gameData' = <<createNewGameData(NoSettings)>>
            /\ maxMainLineMoveNumber' = 0
            /\ UNCHANGED <<isEditMode, activeEditTool>>
    /\ updateStateFromNodeId(gameData'[1].rootNodeId, gameData')
    /\ lastOp' = Op("load", <<>>)
    /\ edits' = 0
    /\ UNCHANGED <<editModePlayer, rulesVars, draftVars, parserVars>>

\* the component once a file has been loaded into it
Init ==
  /\ RulesIdle /\ DraftIdle /\ ParserIdle
  /\ \E loaded \in { ParsedText[sgfText] : sgfText \in LoadTexts } :
       LET parsedData == loaded.game
           root == parsedData.nodes[parsedData.rootNodeId]
       IN /\ loaded.outcome = "game"
          /\ gameData = <<parsedData>>
          /\ currentNodeId = parsedData.rootNodeId
          /\ activePath = <<parsedData.rootNodeId>>
          /\ currentFullKoState = root.koState
          /\ currentPlayerForInfo = NextPlayerAt(root, parsedData)
          /\ maxMainLineMoveNumber =
               MainLineMax(parsedData.nodes, parsedData.rootNodeId, {},
                           root.moveNumber)
  /\ isEditMode = FALSE
  /\ activeEditTool = NoTool
  /\ editModePlayer = Black
  /\ lastOp = Op("load", <<>>)
  /\ edits = 0

Next ==
  \/ \E point \in BoardPoints(IF gameData = <<>> THEN 0
                               ELSE gameData[1].info.boardSize) :
       handleBoardClick(point)
  \/ \E target \in NavTargets : handleNavigation(target)
  \/ \E tool \in EditTools : setActiveEditTool(tool)
  \/ handleToggleEditMode
  \/ \E sgfText \in LoadTexts : handleSgfLoad(sgfText)

Spec == Init /\ [][Next]_vars

----------------------------------------------------------------------------
(* Properties of the game tree under the handlers *)

\* the tree below a node: each node's move, its main-line flag and its
\* children in order
RECURSIVE TreeShape(_, _)
TreeShape(nodes, nodeId) ==
  [player |-> nodes[nodeId].player,
   coord |-> nodes[nodeId].coord,
   isMainLineNext |-> nodes[nodeId].isMainLineNext,
   children |-> [k \in 1..Len(nodes[nodeId].childrenIds) |->
                   TreeShape(nodes, nodes[nodeId].childrenIds[k])]]

\* parseSgf gives back a tree of the same shape
SameTreeReparsed(fullGameData, reparsed) ==
  /\ reparsed.outcome = "game"
  /\ TreeShape(reparsed.game.nodes, reparsed.game.rootNodeId)
       = TreeShape(fullGameData.nodes, fullGameData.rootNodeId)

\* the game was opened on a lone root and has since only been played on
\* and navigated in
GrownByPlay ==
  /\ gameData # <<>>
  /\ gameData[1].info.name = <<PlayableGameName>>
  /\ edits = 0

\* C7: for every tree grown from a fresh root by appendMove and navigation,
\* parsing the text generateSgfString writes for it gives a tree in which
\* every node has the same parent, the same children in the same order and
\* the same isMainLineNext.
C7_GeneratorInvertsParser ==
  GrownByPlay =>
    SameTreeReparsed(gameData[1], parseSgf(generateSgfString(gameData)))

\* C9: every non-root node has moveNumber = parent.moveNumber + 1 if it has
\* a player set and moveNumber = parent.moveNumber otherwise.
C9_MoveNumbering ==
  gameData # <<>> =>
    \A nodeId \in DOMAIN gameData[1].nodes :
      LET node == gameData[1].nodes[nodeId]
      IN node.parentId # NoNode =>
           node.moveNumber =
             gameData[1].nodes[node.parentId].moveNumber
               + (IF node.player # <<>> THEN 1 ELSE 0)

\* what a successful appendMove of player at point under parent P leaves
AppendedAt(P, player, point, oldNodes, newNodes) ==
  LET newNodeId == Len(newNodes)
      newNode == newNodes[newNodeId]
      played == applyMove(oldNodes[P].boardState, player, point, oldNodes[P].koState)
  IN /\ Len(newNodes) = Len(oldNodes) + 1
     /\ \A id \in DOMAIN oldNodes : id # P => newNodes[id] = oldNodes[id]
     /\ newNodes[P].childrenIds[1] = newNodeId
     /\ newNodes[P].isMainLineNext
     /\ Tail(newNodes[P].childrenIds) = oldNodes[P].childrenIds
     /\ newNode.childrenIds = <<>>
     /\ newNode.parentId = P
     /\ newNode.sgfProps =
          << [key |-> IF player = Black THEN KeyB ELSE KeyW,
              values |-> <<pointToSgfCoord(point)>>] >>
     /\ played.error = NoError
     /\ newNode.boardState = played.newBoard
     /\ newNode.stonesCapturedInThisStep = played.stonesCapturedInThisMove
     /\ newNode.koState = played.newKoState

\* C10: after every successful appendMove at P the new node is
\* P.childrenIds[0], P.isMainLineNext is true, P's previous children follow
\* in their previous order, and the new node has no children, parentId P,
\* exactly one move property (B or W with the coordinate) and the
\* boardState, captures and koState that applyMove gives on P's board.
C10_AppendMove ==
  [][lastOp'.kind = "appendMove" =>
       \E player \in {Black, White} :
         AppendedAt(currentNodeId, player, lastOp'.arg[1],
                    gameData[1].nodes, gameData'[1].nodes)]_vars

\* a move was just appended under a node that already had a child
C10_Witness ==
  /\ lastOp.kind = "appendMove"
  /\ Len(gameData[1].nodes[gameData[1].nodes[currentNodeId].parentId].childrenIds) > 1

\* C11: when a play at the current node is refused by the rules engine
\* (occupied or out of bounds, ko, suicide), no node is added, no field of
\* any node changes and the current node stays the same.
C11_RejectedPlayLeavesTree ==
  [][lastOp'.kind = "rejected"
       => /\ gameData' = gameData
          /\ currentNodeId' = currentNodeId
          /\ activePath' = activePath
          /\ applyMove(gameData[1].nodes[currentNodeId].boardState,
                       IF isEditMode THEN editModePlayer
                       ELSE currentPlayerForInfo,
                       lastOp'.arg[1], currentFullKoState).error
               = lastOp'.arg[2]]_vars

\* a play was just refused as suicide on a tree that holds a move node
C11_Witness ==
  /\ lastOp.kind = "rejected"
  /\ lastOp.arg[2] = ErrSuicide
  /\ \E id \in DOMAIN gameData[1].nodes : gameData[1].nodes[id].player # <<>>


----------------------------------------------------------------------------
(* Round trip of SGF texts: a well-formed text is written token by token,   *)
(* then parsed, generated and parsed again.                                 *)

\* the most nodes written after the root
MaxDraftNodes == 3

DraftHeader == <<"(", ";", "S", "Z", "[", "2", "]">>

\* the properties a written node carries: moves and setup on the 2x2 board,
\* among them a position in which White's move at ba takes a stone
DraftProperties ==
  { <<"B", "[", "a", "a", "]">>,
    <<"W", "[", "a", "b", "]">>,
    <<"A", "B", "[", "b", "a", "]">>,
    <<"A", "W", "[", "b", "b", "]">>,
    <<"A", "E", "[", "a", "a", "]">>,
    <<"W", "[", "b", "a", "]">>,
    <<"A", "B", "[", "a", "a", "]", "A", "W", "[", "a", "b", "]">> }

\* ";" and the properties of one more node
WriteNode(properties) ==
  /\ draftLast \in {"node", "open", "close"}
  /\ draftNodes < MaxDraftNodes
  /\ draft' = draft \o <<";">> \o properties
  /\ draftLast' = "node"
  /\ draftNodes' = draftNodes + 1
  /\ UNCHANGED <<draftOpen, rulesVars, appVars, parserVars>>

\* "(" of a variation after a node or after an earlier variation
OpenVariation ==
  /\ draftLast \in {"node", "close"}
  /\ draftNodes < MaxDraftNodes
  /\ draft' = Append(draft, "(")
  /\ draftOpen' = draftOpen + 1
  /\ draftLast' = "open"
  /\ UNCHANGED <<draftNodes, rulesVars, appVars, parserVars>>

\* ")" of a variation, or of the collection, which ends the text
CloseVariation ==
  /\ draftLast \in {"node", "close"}
  /\ draftOpen > 0
  /\ draft' = Append(draft, ")")
  /\ draftOpen' = draftOpen - 1
  /\ draftLast' = IF draftOpen = 1 THEN "end" ELSE "close"
  /\ UNCHANGED <<draftNodes, rulesVars, appVars, parserVars>>

\* parseSgf on the finished text
LoadDraft ==
  /\ draftLast = "end"
  /\ draftLast' = parseSgf(draft).outcome
  /\ UNCHANGED <<draft, draftOpen, draftNodes, rulesVars, appVars, parserVars>>

RoundTripInit ==
  /\ RulesIdle /\ AppIdle /\ ParserIdle
  /\ draft = DraftHeader
  /\ draftOpen = 1
  /\ draftLast = "node"
  /\ draftNodes = 0

RoundTripNext ==
  \/ \E properties \in DraftProperties : WriteNode(properties)
  \/ OpenVariation
  \/ CloseVariation
  \/ LoadDraft

SpecRoundTrip == RoundTripInit /\ [][RoundTripNext]_vars

\* the tree below a node: each node's board and its children in order
RECURSIVE BoardShape(_, _)
BoardShape(nodes, nodeId) ==
  [boardState |-> nodes[nodeId].boardState,
   children |-> [k \in 1..Len(nodes[nodeId].childrenIds) |->
                   BoardShape(nodes, nodes[nodeId].childrenIds[k])]]

\* T2 = parseSgf(generateSgfString(T1)) has the nodes, the parent/child
\* links and the boards of T1
SameBoardsReparsed(T1, T2) ==
  /\ T2.outcome = "game"
  /\ Len(T2.game.nodes) = Len(T1.nodes)
  /\ BoardShape(T2.game.nodes, T2.game.rootNodeId)
       = BoardShape(T1.nodes, T1.rootNodeId)

RoundTripOf(T1) ==
  SameBoardsReparsed(T1, parseSgf(generateSgfString(<<T1>>)))

\* C6: for every well-formed SGF text S, T1 = parseSgf(S) and
\* T2 = parseSgf(generateSgfString(T1)) have the same number of nodes, the
\* same parent/child correspondence and the same boardState at every
\* corresponding node.
C6_RoundTripFromText ==
  draftLast = "game" => RoundTripOf(parseSgf(draft).game)

----------------------------------------------------------------------------
(* The raw pass, one loop iteration at a time, on every short text *)

\* the longest text handed to the raw pass
MaxTextLen == 4

TextAlphabet == {"(", ")", ";", "[", "]", "B", "a", " ", "\\"}

Texts == UNION { [1..n -> TextAlphabet] : n \in 0..MaxTextLen }

\* one iteration of the loop parseSgfNodesRecursive is in
ParseAdvance ==
  /\ parser.pc # "returned"
  /\ parser' = ParseStep(parser)
  /\ UNCHANGED <<rulesVars, appVars, draftVars>>

ParserInit ==
  /\ RulesIdle /\ AppIdle /\ DraftIdle
  /\ \E text \in Texts : parser = ParserStart(text)

ParserNext == ParseAdvance

SpecParser == ParserInit /\ [][ParserNext]_vars

\* C8: parseSgf runs to completion on every finite input text: as long as
\* the raw pass has not returned, its next loop iteration advances it.
C8_ParseCompletes ==
  parser.pc # "returned" => ParseStep(parser) # parser

----------------------------------------------------------------------------
(* parseSgf on whole files: services/goLogic.ts *)

\* how far the sizes tried reach below 0 and beyond 52
SizeMargin == 3

SizeValues == (0 - SizeMargin)..(52 + SizeMargin)

\* a file whose root carries SZ[n], alone or followed by a move node
SizeText(n, moves) ==
  <<"(", ";", "S", "Z", "[">> \o IntToString(n) \o <<"]">> \o moves \o <<")">>

SizeTexts ==
  { SizeText(n, moves) : n \in SizeValues,
                         moves \in { <<>>, <<";", "B", "[", "a", "a", "]">> } }

\* the most nodes a file of moves carries after its root
MaxMoveNodes == 3

\* the nodes of the files of moves, on the 2x2 board: moves that the rules
\* accept or refuse depending on what precedes them, setup, and a node with
\* setup and a move together
MoveNodes ==
  { <<";", "B", "[", "a", "a", "]">>,
    <<";", "W", "[", "a", "a", "]">>,
    <<";", "W", "[", "a", "b", "]">>,
    <<";", "A", "W", "[", "a", "b", "]", "[", "b", "a", "]">>,
    <<";", "A", "B", "[", "b", "b", "]", "B", "[", "a", "a", "]">>,
    <<";", "A", "E", "[", "a", "a", "]">> }

\* the root, one node, and the other nodes either in line or each as a
\* variation of the first
MoveText(first, others, asVariations) ==
  DraftHeader \o first
    \o Concat([k \in 1..Len(others) |->
                 IF asVariations THEN <<"(">> \o others[k] \o <<")">>
                 ELSE others[k]])
    \o <<")">>

MoveTexts ==
  { MoveText(first, others, asVariations) :
      first \in MoveNodes,
      others \in UNION { [1..n -> MoveNodes] : n \in 0..(MaxMoveNodes - 1) },
      asVariations \in BOOLEAN }

\* how far the board sizes tried reach on both sides of 19
CoordMargin == 2

CoordSizes == (19 - CoordMargin)..(19 + CoordMargin)

\* the lowercase letters, 'a' + index at position index + 1
CoordLetters ==
  <<"a", "b", "c", "d", "e", "f", "g", "h", "i", "j", "k", "l", "m",
    "n", "o", "p", "q", "r", "s", "t", "u", "v", "w", "x", "y", "z">>

\* the letters tried: the indices 0 .. largest size + 1
CoordIndices == 0..(19 + CoordMargin + 1)

\* a file of size N whose one move is Black at column letter i, row letter j
CoordText(N, i, j) ==
  SizeText(N, <<";", "B", "[", CoordLetters[i + 1], CoordLetters[j + 1], "]">>)

CoordTexts ==
  { CoordText(N, i, j) : N \in CoordSizes, i \in CoordIndices, j \in CoordIndices }

\* the board sizes with handicap tables and the handicaps tried
HandicapSizes == {9, 13, 19}
HandicapValues == 2..9

\* what follows the root of a handicap file: nothing, or a first move
HandicapTails ==
  { <<>>, <<";", "B", "[", "a", "a", "]">>, <<";", "W", "[", "a", "a", "]">> }

\* a file whose root carries SZ[N] and HA[h] and no AB
HandicapText(N, h, tail) ==
  <<"(", ";", "S", "Z", "[">> \o IntToString(N)
    \o <<"]", "H", "A", "[">> \o IntToString(h) \o <<"]">> \o tail \o <<")">>

HandicapTexts ==
  { HandicapText(N, h, tail) :
      N \in HandicapSizes, h \in HandicapValues, tail \in HandicapTails }

\* the files handed to parseSgf
FileTexts == SizeTexts \cup MoveTexts \cup CoordTexts \cup HandicapTexts

FilesInit ==
  /\ RulesIdle /\ AppIdle /\ ParserIdle
  /\ draft \in FileTexts
  /\ draftOpen = 0
  /\ draftLast = "end"
  /\ draftNodes = 0

FilesNext == LoadDraft

SpecFiles == FilesInit /\ [][FilesNext]_vars

\* the file has been handed to parseSgf
Loaded == draftLast \notin {"none", "end"}

\* the file is one of the two with SZ[n] on its root
HasSize(n) ==
  \E moves \in { <<>>, <<";", "B", "[", "a", "a", "]">> } :
    draft = SizeText(n, moves)

\* C12 as stated: null for every integer SZ outside 2..52, and a game of
\* that board size for every SZ within 2..52.
C12_AsClaimed ==
  \A n \in SizeValues :
    Loaded /\ HasSize(n) =>
      IF n \in 2..52
      THEN /\ parseSgf(draft).outcome = "game"
           /\ parseSgf(draft).game.info.boardSize = n
      ELSE parseSgf(draft).outcome = "null"

\* C12, amended: parseSgf returns null when SZ is 1 or above 52, a game of
\* that board size when SZ is within 2..52, and a game of the default board
\* size 19 when SZ is 0 or negative.
C12_SizeChecked ==
  \A n \in SizeValues :
    Loaded /\ HasSize(n) =>
      CASE n \in 2..52 -> /\ parseSgf(draft).outcome = "game"
                          /\ parseSgf(draft).game.info.boardSize = n
        [] n = 1 \/ n > 52 -> parseSgf(draft).outcome = "null"
        [] OTHER -> /\ parseSgf(draft).outcome = "game"
                    /\ parseSgf(draft).game.info.boardSize = DEFAULT_BOARD_SIZE

\* the file with SZ[53] has been refused
C12_Witness == Loaded /\ HasSize(53) /\ draftLast = "null"

\* the number of nodes a text of MoveTexts writes
WrittenNodes(text) == Len(SelectSeq(text, LAMBDA ch : ch = ";"))

\* the points a setup property of a node lists
SetupPoints(props, key) ==
  IF HasProp(props, key)
  THEN { sgfCoordToPoint(PropValues(props, key)[k])[1] :
           k \in { j \in 1..Len(PropValues(props, key)) :
                     sgfCoordToPoint(PropValues(props, key)[j]) # <<>> } }
  ELSE {}

\* the parent's board with the node's own AB, AW and AE lists written on it
BoardUnderSetup(parentBoard, props) ==
  [r \in DOMAIN parentBoard |-> [c \in DOMAIN parentBoard[r] |->
     IF Pt(r, c) \in SetupPoints(props, KeyAE) THEN Empty
     ELSE IF Pt(r, c) \in SetupPoints(props, KeyAW) THEN White
     ELSE IF Pt(r, c) \in SetupPoints(props, KeyAB) THEN Black
     ELSE parentBoard[r][c]]]

\* the move of a non-root node was refused by the rules engine
MoveRefused(nodes, id) ==
  LET node == nodes[id]
      parent == nodes[node.parentId]
      props == node.sgfProps
  IN /\ node.parentId # NoNode
     /\ node.player # <<>>
     /\ node.coord # <<>>
     /\ applyMove(BoardUnderSetup(parent.boardState, props), node.player[1],
                  node.coord[1],
                  IF HasSetupProps(props) \/ HasProp(props, KeyPL)
                  THEN NoKo ELSE parent.koState).error # NoError

\* the node of a refused move keeps its move property and its parent's totals
RefusedMoveKept(nodes, id) ==
  LET node == nodes[id]
      parent == nodes[node.parentId]
      key == IF node.player[1] = Black THEN KeyB ELSE KeyW
  IN /\ HasProp(node.sgfProps, key)
     /\ sgfCoordToPoint(PropValues(node.sgfProps, key)[1]) = node.coord
     /\ node.totalCapturedByBlack = parent.totalCapturedByBlack
     /\ node.totalCapturedByWhite = parent.totalCapturedByWhite

\* C13 as stated: a refused move does not abort the parse; its node is
\* created with its properties kept, with exactly its parent's boardState and
\* capture totals, and every node and variation of the file is resolved.
C13_AsClaimed ==
  Loaded /\ draft \in MoveTexts =>
    /\ parseSgf(draft).outcome = "game"
    /\ Len(parseSgf(draft).game.nodes) = WrittenNodes(draft)
    /\ \A id \in DOMAIN parseSgf(draft).game.nodes :
         MoveRefused(parseSgf(draft).game.nodes, id) =>
           /\ RefusedMoveKept(parseSgf(draft).game.nodes, id)
           /\ parseSgf(draft).game.nodes[id].boardState
                = parseSgf(draft).game.nodes[
                    parseSgf(draft).game.nodes[id].parentId].boardState

\* C13, amended: a refused move does not abort the parse; its node is
\* created with its properties kept and its parent's capture totals, its
\* boardState is its parent's boardState with the node's own AB/AW/AE setup
\* written on it (the parent's boardState itself when the node has no
\* setup property), and every node and variation of the file is resolved.
C13_RefusedMoveSkipped ==
  Loaded /\ draft \in MoveTexts =>
    /\ parseSgf(draft).outcome = "game"
    /\ Len(parseSgf(draft).game.nodes) = WrittenNodes(draft)
    /\ \A id \in DOMAIN parseSgf(draft).game.nodes :
         MoveRefused(parseSgf(draft).game.nodes, id) =>
           /\ RefusedMoveKept(parseSgf(draft).game.nodes, id)
           /\ parseSgf(draft).game.nodes[id].boardState
                = BoardUnderSetup(
                    parseSgf(draft).game.nodes[
                      parseSgf(draft).game.nodes[id].parentId].boardState,
                    parseSgf(draft).game.nodes[id].sgfProps)

\* a file has been parsed in which a move is refused and a node follows it
C13_Witness ==
  /\ Loaded /\ draft \in MoveTexts /\ draftLast = "game"
  /\ \E id \in DOMAIN parseSgf(draft).game.nodes :
       /\ MoveRefused(parseSgf(draft).game.nodes, id)
       /\ parseSgf(draft).game.nodes[id].childrenIds # <<>>

\* C14: on a board of size N a move with column letter 'a' + c and row
\* letter 'a' + r is a stone at (r, c) when both indices are below N and a
\* pass (no coord, no stone) exactly when one is not; and the coordinate
\* text of a point of the board parses back to the point.
C14_CoordinateMapping ==
  \A N \in CoordSizes : \A c, r \in CoordIndices :
    Loaded /\ draft = CoordText(N, c, r) =>
      /\ parseSgf(draft).outcome = "game"
      /\ LET node == parseSgf(draft).game.nodes[2]
         IN IF c < N /\ r < N
            THEN /\ node.coord = <<Pt(r, c)>>
                 /\ node.boardState[r][c] = Black
                 /\ sgfCoordToPoint(pointToSgfCoord(Pt(r, c))) = <<Pt(r, c)>>
            ELSE /\ node.coord = <<>>
                 /\ node.boardState = createEmptyBoard(N)

\* the points of a board that hold a stone of a colour
StonesOf(board, color) ==
  { p \in PointsOf(board) : board[p.r][p.c] = color }

\* C15: for a root with HA[h], h in 2..9, and no AB, on the board sizes 9,
\* 13 and 19, the root board holds exactly h black stones and no white
\* stone, and the game opens with White to move whatever the colour of the
\* first move node.
C15_HandicapPlaced ==
  \A N \in HandicapSizes : \A h \in HandicapValues : \A tail \in HandicapTails :
    Loaded /\ draft = HandicapText(N, h, tail) =>
      /\ parseSgf(draft).outcome = "game"
      /\ LET game == parseSgf(draft).game
             rootBoard == game.nodes[game.rootNodeId].boardState
         IN /\ Cardinality(StonesOf(rootBoard, Black)) = h
            /\ StonesOf(rootBoard, White) = {}
            /\ game.initialPlayerForDisplay = White

\* C16: 'next' prefers the previously visited child: when 'prev' has just
\* led from a child V of P back to P, P has at least two children and V is
\* not the first of them, a 'next' from P leads to V.
C16_NextPrefersVisited ==
  [][/\ lastOp.kind = "navigate" /\ Len(lastOp.arg) = 2
     /\ lastOp.arg[1] = "prev"
     /\ lastOp' = Op("navigate", <<"next", currentNodeId>>)
     /\ gameData[1].nodes[lastOp.arg[2]].parentId = currentNodeId
     /\ Len(gameData[1].nodes[currentNodeId].childrenIds) >= 2
     /\ gameData[1].nodes[currentNodeId].childrenIds[1] # lastOp.arg[2]
     => currentNodeId' = lastOp.arg[2]]_vars

----------------------------------------------------------------------------
(* A property value written by the generator and read back by the raw pass *)

\* the longest value written
MaxValueLen == 4

ValueAlphabet == {"a", "\\", "]", "[", ";"}

Values == UNION { [1..n -> ValueAlphabet] : n \in 0..MaxValueLen }

\* what may follow the property in the file
ValueSuffixes == { <<>>, <<"[", "b", "]">>, <<")">>, <<"]">> }

\* formatSingleProperty writes the value held in draft after the name C, and
\* the text handed to the parser is that property and what follows it
WriteValue ==
  /\ parser.pc = "idle"
  /\ \E suffix \in ValueSuffixes :
       parser' = [pc |-> "value",
                  written |-> formatSingleProperty(<<"C">>, <<draft>>),
                  text |-> formatSingleProperty(<<"C">>, <<draft>>) \o suffix]
  /\ UNCHANGED <<rulesVars, appVars, draftVars>>

ValuesInit ==
  /\ RulesIdle /\ AppIdle /\ ParserIdle
  /\ draft \in Values
  /\ draftOpen = 0
  /\ draftLast = "value"
  /\ draftNodes = 0

ValuesNext == WriteValue

SpecValues == ValuesInit /\ [][ValuesNext]_vars

\* the characters the generator puts a backslash before
Escaped(value) == { k \in 1..Len(value) : value[k] \in {"\\", "]"} }

\* where the k-th character of the value stands in the written property
WrittenAt(value, k) == 2 + k + Cardinality({ j \in Escaped(value) : j <= k })

\* C18: the bracketed text the generator writes for a value is the value
\* with a backslash before each backslash and each ']' and before nothing
\* else, and the parser reading that text after its '[' gets the value back
\* character for character and stops right after the closing ']' of that
\* value, whatever follows.
C18_EscapeRoundTrip ==
  parser.pc = "value" =>
    /\ Len(parser.written) = Len(draft) + Cardinality(Escaped(draft)) + 3
    /\ parser.written[1] = "C"
    /\ parser.written[2] = "["
    /\ parser.written[Len(parser.written)] = "]"
    /\ \A k \in 1..Len(draft) :
         /\ parser.written[WrittenAt(draft, k)] = draft[k]
         /\ k \in Escaped(draft) =>
              parser.written[WrittenAt(draft, k) - 1] = "\\"
    /\ ReadPropValue(parser.text, 2, <<>>, FALSE)
         = [propValue |-> draft, i |-> Len(parser.written)]

\* a value holding a backslash, a ']' and a '[' has been written before
\* another bracketed value
C18_Witness ==
  /\ parser.pc = "value"
  /\ {"\\", "]", "["} \subseteq { draft[k] : k \in 1..Len(draft) }
  /\ Len(parser.text) > Len(parser.written)
  /\ parser.text[Len(parser.written) + 1] = "["

----------------------------------------------------------------------------
(* In-place setup edits: App.tsx *)

\* the step just taken is an in-place edit with the stone tools
StoneEdited == lastOp.kind \in {"place", "remove"}

\* the board a node is derived from: its parent's, or the empty board of
\* the game for the root
ParentBoard(data, id) ==
  IF data.nodes[id].parentId = NoNode
  THEN createEmptyBoard(data.info.boardSize)
  ELSE data.nodes[data.nodes[id].parentId].boardState

\* C19: after a stone has been placed or removed in place on node n with the
\* edit tools, n.boardState is the board of n's parent with n's resulting
\* AB, AW and AE lists applied to it, no move being replayed.
C19_EditedBoardDerived ==
  StoneEdited =>
    gameData[1].nodes[currentNodeId].boardState
      = BoardUnderSetup(ParentBoard(gameData[1], currentNodeId),
                        gameData[1].nodes[currentNodeId].sgfProps)

\* the fields of a node an in-place edit has no business with
KeptFields(node) ==
  <<node.id, node.parentId, node.childrenIds, node.isMainLineNext,
    node.moveNumber, node.totalCapturedByBlack, node.totalCapturedByWhite>>

\* C20: a step that places or removes a stone in place on the current node
\* n creates and removes no node, leaves every other node as it was, their
\* boardState included, and leaves n its id, parentId, childrenIds,
\* isMainLineNext, moveNumber, totalCapturedByBlack and totalCapturedByWhite.
C20_EditChangesOnlyNode ==
  [][StoneEdited' =>
       /\ currentNodeId' = currentNodeId
       /\ Len(gameData'[1].nodes) = Len(gameData[1].nodes)
       /\ \A id \in DOMAIN gameData[1].nodes :
            IF id = currentNodeId
            THEN KeptFields(gameData'[1].nodes[id])
                   = KeptFields(gameData[1].nodes[id])
            ELSE gameData'[1].nodes[id] = gameData[1].nodes[id]]_vars

\* a stone has been placed on a node that has a parent, children and a move
\* number of its own, and the board of that node is no longer the one its
\* first child was derived from
C20_Witness ==
  /\ lastOp.kind = "place"
  /\ gameData[1].nodes[currentNodeId].parentId # NoNode
  /\ gameData[1].nodes[currentNodeId].childrenIds # <<>>
  /\ gameData[1].nodes[currentNodeId].moveNumber > 0
  /\ \E p \in BoardPoints(gameData[1].info.boardSize) :
       /\ gameData[1].nodes[currentNodeId].boardState[p.r][p.c] # Empty
       /\ gameData[1].nodes[gameData[1].nodes[currentNodeId].childrenIds[1]]
            .boardState[p.r][p.c] = Empty

\* the ko state a node would carry had its move just taken the stone at q
KoAt(data, id, q) ==
  [koPoint |-> <<q>>,
   boardSnapshotBeforeKoTrigger |-> <<ParentBoard(data, id)>>]

\* C21: after a stone has been placed or removed in place on a node, the
\* node's koState is empty, its player and coord are cleared and its
\* stonesCapturedInThisStep is empty; the ko state the next play is checked
\* against is empty too, so no play on that node is refused for ko.
C21_EditClearsKo ==
  StoneEdited =>
    /\ gameData[1].nodes[currentNodeId].koState = NoKo
    /\ gameData[1].nodes[currentNodeId].player = <<>>
    /\ gameData[1].nodes[currentNodeId].coord = <<>>
    /\ gameData[1].nodes[currentNodeId].stonesCapturedInThisStep = <<>>
    /\ currentFullKoState = NoKo
    /\ \A p \in BoardPoints(gameData[1].info.boardSize) :
         \A player \in {Black, White} :
           applyMove(gameData[1].nodes[currentNodeId].boardState, player, p,
                     currentFullKoState).error # ErrKo

\* a stone has been placed or removed on a node whose move had taken a ko:
\* under the ko state of that move the retaking play would be refused, and
\* it is now accepted
C21_Witness ==
  /\ StoneEdited
  /\ gameData[1].nodes[currentNodeId].parentId # NoNode
  /\ \E q \in BoardPoints(gameData[1].info.boardSize) :
       \E player \in {Black, White} :
         /\ applyMove(gameData[1].nodes[currentNodeId].boardState, player, q,
                      KoAt(gameData[1], currentNodeId, q)).error = ErrKo
         /\ applyMove(gameData[1].nodes[currentNodeId].boardState, player, q,
                      currentFullKoState).error = NoError

----------------------------------------------------------------------------
(* The stone tools on every setup position of a small board: App.tsx *)

\* the side of the boards the stone tools are tried on
SetupSize == 3

SetupCoords == 0..(SetupSize - 1)

\* the positions on which every group has a liberty
SetupBoards ==
  { b \in [SetupCoords -> [SetupCoords -> {Empty, Black, White}]] :
      AllChainsAlive(b) }

\* the k-th point of the board, row by row
NthPoint(k) == Pt((k - 1) \div SetupSize, (k - 1) % SetupSize)

\* a setup property listing the stones of one colour, or nothing
StoneList(board, key, color) ==
  LET values == Concat([k \in 1..(SetupSize * SetupSize) |->
                  IF board[NthPoint(k).r][NthPoint(k).c] = color
                  THEN <<"[">> \o pointToSgfCoord(NthPoint(k)) \o <<"]">>
                  ELSE <<>>])
  IN IF values = <<>> THEN <<>> ELSE key \o values

\* the file that sets a position up on its root
SetupFile(board) ==
  <<"(", ";", "S", "Z", "[">> \o NatToString(SetupSize) \o <<"]">>
    \o StoneList(board, KeyAB, Black) \o StoneList(board, KeyAW, White)
    \o <<")">>

\* the component with such a file loaded, in edit mode, a stone tool chosen
SetupInit ==
  /\ RulesIdle /\ DraftIdle /\ ParserIdle
  /\ \E board \in SetupBoards :
       \E loaded \in { parseSgf(SetupFile(board)) } :
         LET parsedData == loaded.game
             root == parsedData.nodes[parsedData.rootNodeId]
         IN /\ loaded.outcome = "game"
            /\ gameData = <<parsedData>>
            /\ currentNodeId = parsedData.rootNodeId
            /\ activePath = <<parsedData.rootNodeId>>
            /\ currentFullKoState = root.koState
            /\ currentPlayerForInfo = NextPlayerAt(root, parsedData)
            /\ editModePlayer = parsedData.initialPlayerForDisplay
            /\ maxMainLineMoveNumber = root.moveNumber
  /\ isEditMode = TRUE
  /\ activeEditTool \in {PLACE_BLACK, PLACE_WHITE}
  /\ lastOp = Op("tool", <<>>)
  /\ edits = 0

SetupNext == \E point \in BoardPoints(SetupSize) : handleBoardClick(point)

SpecSetup == SetupInit /\ [][SetupNext]_vars

\* the stones a step of the place tool has left on the board of the node
\* are the ones its AB and AW lists name
ListedStones(node) ==
  \A p \in PointsOf(node.boardState) :
    /\ node.boardState[p.r][p.c] = Black <=> p \in SetupPoints(node.sgfProps, KeyAB)
    /\ node.boardState[p.r][p.c] = White <=> p \in SetupPoints(node.sgfProps, KeyAW)

\* C22: on a node whose board has no group without a liberty, a click with
\* the place-black or place-white tool, on an empty point or on a stone, is
\* never refused, leaves no group without a liberty on the node's board, and
\* leaves in the node's AB and AW lists none of the stones it took off.
C22_PlacementClearsDeadGroups ==
  [][/\ lastOp'.kind = "place"
     /\ AllChainsAlive(gameData'[1].nodes[currentNodeId'].boardState)
     /\ ListedStones(gameData'[1].nodes[currentNodeId'])]_vars

\* a white stone has been put where a black stone stood, stands there, and
\* two stones or more have left the board with the click
C22_Witness ==
  /\ lastOp.kind = "place"
  /\ activeEditTool = PLACE_WHITE
  /\ gameData[1].nodes[currentNodeId].boardState[lastOp.arg[1].r][lastOp.arg[1].c] = White
  /\ lastOp.arg[1] \in SetupPoints(gameData[1].info.originalRootSgfProps, KeyAB)
  /\ Cardinality(SetupPoints(gameData[1].nodes[currentNodeId].sgfProps, KeyAE)) >= 2

----------------------------------------------------------------------------
(* The shape of the tree across a session *)

\* the node reached from id by n steps to the parent, NoNode past the root
RECURSIVE AncestorAt(_, _, _)
AncestorAt(nodes, id, n) ==
  IF n = 0 \/ id = NoNode THEN id
  ELSE AncestorAt(nodes, nodes[id].parentId, n - 1)

WellFormedTree(data) ==
  LET nodes == data.nodes
      ids == DOMAIN nodes
  IN /\ data.rootNodeId \in ids
     /\ \A id \in ids : nodes[id].parentId = NoNode <=> id = data.rootNodeId
     /\ \A id \in ids :
          /\ NoDuplicates(nodes[id].childrenIds)
          /\ \A k \in 1..Len(nodes[id].childrenIds) :
               /\ nodes[id].childrenIds[k] \in ids
               /\ nodes[nodes[id].childrenIds[k]].parentId = id
     /\ \A id \in ids \ {data.rootNodeId} :
          /\ nodes[id].parentId \in ids
          /\ id \in SeqToSet(nodes[nodes[id].parentId].childrenIds)
     /\ \A id \in ids :
          \E n \in 0..Cardinality(ids) : AncestorAt(nodes, id, n) = data.rootNodeId

\* C24: the tree is well formed after every load, appended move, in-place
\* edit and navigation step: the root is the one node without a parent;
\* every id in a childrenIds list is a key of the node map, occurs there once
\* and names a node whose parentId is the owner of the list; every other
\* node is listed by its parent and is reachable from the root; and no step
\* within a game removes a node from the map.
C24_TreeWellFormed ==
  /\ [](gameData # <<>> => WellFormedTree(gameData[1]))
  /\ [][lastOp'.kind # "load" =>
          \A id \in DOMAIN gameData[1].nodes :
            /\ id \in DOMAIN gameData'[1].nodes
            /\ gameData'[1].nodes[id].id = gameData[1].nodes[id].id]_vars

\* after an in-place edit, a move has been appended to a node that had a
\* child already
C24_Witness ==
  /\ gameData # <<>>
  /\ edits > 0
  /\ lastOp.kind = "appendMove"
  /\ Len(gameData[1].nodes[gameData[1].nodes[currentNodeId].parentId].childrenIds) >= 2

\* the path is the chain of parents from the root down to the node
PathFromRoot(data, path, nodeId) ==
  /\ path # <<>>
  /\ path[1] = data.rootNodeId
  /\ path[Len(path)] = nodeId
  /\ \A k \in 1..(Len(path) - 1) :
       /\ path[k + 1] \in DOMAIN data.nodes
       /\ data.nodes[path[k + 1]].parentId = path[k]

\* C25: after every navigation step, appended move and in-place edit the
\* current node id is a key of the node map and the active path is the
\* sequence of ids from the root to the current node: it starts at the root,
\* ends at the current node, and each element is the parent of the next.
C25_ActivePathFromRoot ==
  lastOp.kind \in {"navigate", "appendMove", "place", "remove", "markup"} =>
    /\ currentNodeId \in DOMAIN gameData[1].nodes
    /\ PathFromRoot(gameData[1], activePath, currentNodeId)

\* navigation has moved to a node two steps or more below the root
C25_Witness ==
  /\ lastOp.kind = "navigate"
  /\ Len(activePath) >= 3

----------------------------------------------------------------------------
(* The text of a draft read as a document, against the tree parseSgf makes *)

\* the index after the ")" that closes the group opened before index i
RECURSIVE GroupEnd(_, _, _)
GroupEnd(text, i, depth) ==
  IF i > Len(text) THEN i
  ELSE IF text[i] = ")"
    THEN IF depth = 0 THEN i + 1 ELSE GroupEnd(text, i + 1, depth - 1)
  ELSE IF text[i] = "(" THEN GroupEnd(text, i + 1, depth + 1)
  ELSE GroupEnd(text, i + 1, depth)

\* what follows a node in the document, read from index i on: the ";" of
\* the next node of its own sequence, if the sequence goes on, and the ";"
\* heading each parenthesized variation met before that, in document order
RECURSIVE FollowersOf(_, _, _)
FollowersOf(text, i, heads) ==
  IF i > Len(text) \/ text[i] = ")" THEN [next |-> <<>>, heads |-> heads]
  ELSE IF text[i] = ";" THEN [next |-> <<i>>, heads |-> heads]
  ELSE IF text[i] = "("
    THEN FollowersOf(text, GroupEnd(text, i + 1, 0), Append(heads, i + 1))
  ELSE FollowersOf(text, i + 1, heads)

\* the properties written after the ";" at index pos
RECURSIVE NodeText(_, _)
NodeText(text, i) ==
  IF i > Len(text) \/ text[i] \in {";", "(", ")"} THEN <<>>
  ELSE <<text[i]>> \o NodeText(text, i + 1)

\* a property bag as the drafts write it
WrittenProps(props) ==
  Concat([k \in 1..Len(props) |->
            props[k].key \o Concat([j \in 1..Len(props[k].values) |->
                                      <<"[">> \o props[k].values[j] \o <<"]">>])])

\* the child carries what its own properties make of the parent's board, ko
\* state, capture totals and move number
ChildResolvedFrom(nodes, parentId, childId) ==
  LET parent == nodes[parentId]
      child == nodes[childId]
      setupBoard == BoardUnderSetup(parent.boardState, child.sgfProps)
      setupKo == IF HasSetupProps(child.sgfProps) \/ HasProp(child.sgfProps, KeyPL)
                 THEN NoKo ELSE parent.koState
      played == applyMove(setupBoard, child.player[1], child.coord[1], setupKo)
      taken == Len(played.stonesCapturedInThisMove)
  IN /\ child.parentId = parentId
     /\ IF child.player = <<>>
        THEN /\ child.boardState = setupBoard
             /\ child.koState = setupKo
             /\ child.moveNumber = parent.moveNumber
             /\ child.totalCapturedByBlack = parent.totalCapturedByBlack
             /\ child.totalCapturedByWhite = parent.totalCapturedByWhite
        ELSE /\ child.moveNumber = parent.moveNumber + 1
             /\ IF played.error = NoError
                THEN /\ child.boardState = played.newBoard
                     /\ child.koState = played.newKoState
                     /\ child.totalCapturedByBlack = parent.totalCapturedByBlack
                          + (IF child.player[1] = Black THEN taken ELSE 0)
                     /\ child.totalCapturedByWhite = parent.totalCapturedByWhite
                          + (IF child.player[1] = White THEN taken ELSE 0)
                ELSE /\ child.boardState = setupBoard
                     /\ child.koState = setupKo
                     /\ child.totalCapturedByBlack = parent.totalCapturedByBlack
                     /\ child.totalCapturedByWhite = parent.totalCapturedByWhite

\* the node id stands for the node written at index pos, and so on below it
RECURSIVE ReadsAs(_, _, _, _)
ReadsAs(text, pos, nodes, id) ==
  \E read \in { FollowersOf(text, pos + 1, <<>>) } :
    /\ WrittenProps(nodes[id].sgfProps) = NodeText(text, pos + 1)
    /\ nodes[id].isMainLineNext = (read.next # <<>>)
    /\ Len(nodes[id].childrenIds) = Len(read.next \o read.heads)
    /\ \A k \in 1..Len(nodes[id].childrenIds) :
         /\ ReadsAs(text, (read.next \o read.heads)[k], nodes,
                    nodes[id].childrenIds[k])
         /\ ChildResolvedFrom(nodes, id, nodes[id].childrenIds[k])

\* C26: in the tree parseSgf makes of a text, a node has isMainLineNext
\* exactly when another node follows it in its own sequence; that node is
\* then the first of its childrenIds and the variations opened after the
\* node follow in document order; each variation is a child of the node
\* parsed last in the enclosing sequence; and every child carries what its
\* properties make of that node's board, ko state, capture totals and move
\* number.
C26_MainLineAndVariations ==
  draftLast = "game" =>
    ReadsAs(draft, 2, parseSgf(draft).game.nodes,
            parseSgf(draft).game.rootNodeId)

\* the text loaded writes a variation and then goes on with the sequence
\* the variation left, and both have been read as children of one node
C26_Witness ==
  /\ draftLast = "game"
  /\ \E i \in 1..(Len(draft) - 1) : draft[i] = ")" /\ draft[i + 1] = ";"
  /\ \E id \in DOMAIN parseSgf(draft).game.nodes :
       /\ parseSgf(draft).game.nodes[id].isMainLineNext
       /\ Len(parseSgf(draft).game.nodes[id].childrenIds) >= 2

----------------------------------------------------------------------------
(* The root node of the generated text *)

\* the properties the raw pass reads on the first node of a text
FirstNodeProps(text) == parseSgfIntoSequence(text).sequence[1][1].properties

\* the values of a key in a bag, none if the bag does not hold the key
ValuesIn(props, key) == IF HasProp(props, key) THEN PropValues(props, key) ELSE <<>>

\* the C values the root is to be written with: the live ones, else the
\* ones of the file when the live bag does not name C, else the comment of
\* the game information
RootComment(data) ==
  LET live == data.nodes[data.rootNodeId].sgfProps
  IN IF ValuesIn(live, KeyC) # <<>> THEN PropValues(live, KeyC)
     ELSE IF ~HasProp(live, KeyC)
             /\ ValuesIn(data.info.originalRootSgfProps, KeyC) # <<>>
       THEN PropValues(data.info.originalRootSgfProps, KeyC)
     ELSE IF Truthy(data.info.sgfComment) THEN data.info.sgfComment
     ELSE <<>>

\* the step just taken has put a tree in place or written to the tree; the
\* other steps leave gameData as the step before them left it
TreeWritten ==
  lastOp.kind \in {"load", "appendMove", "place", "remove", "markup"}

----------------------------------------------------------------------------
(* Capture totals and move fields along the tree *)

\* the stones the node's step took, counted for the colour given
TakenBy(node, color) ==
  IF node.player = <<color>> THEN Len(node.stonesCapturedInThisStep) ELSE 0

CumulativeTotals(data) ==
  \A id \in DOMAIN data.nodes :
    LET node == data.nodes[id]
    IN IF id = data.rootNodeId
       THEN node.totalCapturedByBlack = 0 /\ node.totalCapturedByWhite = 0
       ELSE /\ node.totalCapturedByBlack
                 = data.nodes[node.parentId].totalCapturedByBlack
                     + TakenBy(node, Black)
            /\ node.totalCapturedByWhite
                 = data.nodes[node.parentId].totalCapturedByWhite
                     + TakenBy(node, White)

\* C28: in every tree reached by loading, appending moves and editing in
\* place, the root has both capture totals 0 and every other node has, for
\* each colour, the total of its parent plus the number of stones in its
\* stonesCapturedInThisStep when its player is that colour.
C28_TotalsCumulative ==
  gameData # <<>> => CumulativeTotals(gameData[1])

\* the node's player is set exactly when its property bag holds a move, and
\* is the colour of that move
MoveFieldsMatch(node) ==
  /\ node.player # <<>> <=> (HasProp(node.sgfProps, KeyB) \/ HasProp(node.sgfProps, KeyW))
  /\ node.player = <<Black>> => HasProp(node.sgfProps, KeyB)
  /\ node.player = <<White>> => HasProp(node.sgfProps, KeyW)

\* C30: after every sequence of loads, appended moves and in-place edits
\* (stone placement, stone removal, markup removal), a node has player set
\* if and only if its sgfProps hold a B or a W property, and player is then
\* the colour of that property.
C30_PlayerMatchesProps ==
  gameData # <<>> =>
    \A id \in DOMAIN gameData[1].nodes : MoveFieldsMatch(gameData[1].nodes[id])

====
